---- MODULE Spec2Model ----
(***************************************************************************)
(* Model of src/main.py: a chat bot that tracks voice-channel presence,    *)
(* converts the time into a currency and offers games of chance.           *)
(*                                                                         *)
(* Specifications:                                                         *)
(*   Spec        session tracker, settlement, read-only queries            *)
(*   SpecLedger  the ledger store's write statements under interleaving    *)
(*   SpecHand    calculate_hand_value on bounded hands                     *)
(*   SpecWager   wager commands (coinflip, roulette, blackjack, bet-horse) *)
(*               as interleaved handlers                                   *)
(*   SpecBlackjack  one blackjack command and its game                     *)
(*   SpecRoulette   roulette commands, every bet and pocket                *)
(*   SpecTrack   the tick loop of a horse race                             *)
(*   SpecRace    bets, the race and its resolution                         *)
(*   SpecBoard   the leaderboards over tables of up to MaxRows rows        *)
(*   SpecQuery   query commands interleaved with a user's voice events     *)
(*   SpecTimeout two blackjack games and their timeouts                    *)
(*   SpecSched   the race scheduler and the races of two guilds            *)
(*   SpecStartup init_database_pool and the store functions after it       *)
(***************************************************************************)
EXTENDS Integers, Sequences, FiniteSets, TLC

VARIABLES
    now,              \* wall clock, whole seconds (datetime.now(timezone.utc))
    voice,            \* member -> voice channel or None (the platform's state)
    active_sessions,  \* line 38: dict user_id -> join_time
    user_stats,       \* table user_stats: user_id -> [total_seconds, balance]
    db_pool,          \* line 40: TRUE when the pool was created, FALSE for None
    ready,            \* on_ready has run its startup scan
    owed_seconds,     \* history: seconds of the sessions removed by a leave
    owed_currency,    \* history: floor(seconds / 60) of those sessions
    stats0,           \* history: the table as found at startup
    hand,             \* SpecHand: a hand of cards
    hand_value,       \* SpecHand: calculate_hand_value(hand)
    inflight,         \* SpecLedger: statements sent to the store, not yet executed
    issued,           \* SpecLedger history: user -> sums of the deltas issued
    calls,            \* SpecLedger history: number of statements sent
    tasks,            \* command handlers in progress: id -> local variables
    invoked,          \* number of commands received so far
    verdicts,         \* history: id -> how the handler's validation ended
    games,            \* BlackjackView objects: id -> attributes
    horse_bets,       \* table horse_bets: <<user_id, guild_id>> -> bet
    guild_configs,    \* table guild_configs: guild_id -> race_channel_id
    spins,            \* history: id -> the spin a roulette handler showed
    races,            \* run_race_in_channel coroutines: guild_id -> locals
    reports,          \* history: id -> what a query command showed
    scheduler,        \* start_race_loop: its position, runs and race coroutines
    boot              \* init_database_pool: its position, the database's tables

sessionVars == <<now, voice, active_sessions, ready, owed_seconds, owed_currency>>
storeVars == <<user_stats, db_pool, stats0>>
handVars == <<hand, hand_value>>
ledgerVars == <<inflight, issued, calls>>

wagerVars ==
    <<tasks, invoked, verdicts, games, horse_bets, guild_configs, spins, races,
      reports, scheduler, boot>>

vars == <<sessionVars, storeVars, handVars, ledgerVars, wagerVars>>

-----------------------------------------------------------------------------
(* Bounds of the model *)

MaxTime == 180
InitSeconds == 60
InitBalance == 2
MaxHand == 4
MaxIssued == 3
MaxCommands == 2
DeckSize == 7
WagerDeckSize == 4
MaxClicks == 2
MaxSpins == 1
MaxRows == 11
MaxQueries == 1
MaxRuns == 2

-----------------------------------------------------------------------------
(* Members, channels *)

Users == {"u1", "u2"}
Bots == {"bot"}
Members == Users \cup Bots
None == "None"
Channels == {"general", "gaming"}

\* The names bound at module level (lines 15-40) with the values the model
\* uses.  A name that is read but is not in this record raises NameError.
ModuleGlobals ==
    [ CURRENCY_NAME |-> "GB",
      SECONDS_PER_CURRENCY |-> 60,
      RACE_TRACK_LENGTH |-> 20,
      RACE_PAYOUT_MULTIPLIER |-> 4 ]

NameError(name) == name \notin DOMAIN ModuleGlobals

\* Lines 253-254 and 391: start_race_loop before its first iteration.  runs
\* counts the calls of run_global_races, logged holds the runs that printed
\* "All races finished.", coros the run_race_in_channel coroutines created.
\* Lines 55-79: the tables init_database_pool creates, in its order.
StoreTables == <<"user_stats", "guild_configs", "horse_bets">>

\* on_ready is over: the pool exists or not, and the database holds the
\* tables.
Booted(pool) ==
    [pc |-> IF pool THEN "ready" ELSE "failed",
     tables |-> {StoreTables[i] : i \in DOMAIN StoreTables},
     statement |-> Len(StoreTables) + 1, ncalls |-> 0, last |-> None]

LoopIdle ==
    [pc |-> "sleep", next_iteration |-> 0, runs |-> 0, logged |-> {},
     coros |-> <<>>, sent |-> {}]

\* del seq[i]
Remove(seq, i) == [j \in 1..(Len(seq) - 1) |-> IF j < i THEN seq[j] ELSE seq[j + 1]]

\* int(a / b) for b > 0: truncation toward zero
IntDiv(a, b) == IF a >= 0 THEN a \div b ELSE -((-a) \div b)

-----------------------------------------------------------------------------
(* Ledger store: each operation is one SQL statement *)

NewRow(seconds, balance) == [total_seconds |-> seconds, balance |-> balance]

UpsertRow(stats, user_id, row) ==
    [u \in DOMAIN stats \cup {user_id} |-> IF u = user_id THEN row ELSE stats[u]]

record_vc_session(stats, pool, user_id, seconds_to_add, currency_to_add) ==
    IF ~pool THEN stats
    ELSE IF user_id \in DOMAIN stats
         THEN UpsertRow(stats, user_id,
                  NewRow(stats[user_id].total_seconds + seconds_to_add,
                         stats[user_id].balance + currency_to_add))
         ELSE UpsertRow(stats, user_id, NewRow(seconds_to_add, currency_to_add))

update_balance_overwrite(stats, pool, user_id, amount) ==
    IF ~pool THEN stats
    ELSE IF user_id \in DOMAIN stats
         THEN UpsertRow(stats, user_id, NewRow(stats[user_id].total_seconds, amount))
         ELSE UpsertRow(stats, user_id, NewRow(0, amount))

update_balance(stats, pool, user_id, amount) ==
    IF ~pool THEN stats
    ELSE IF user_id \in DOMAIN stats
         THEN UpsertRow(stats, user_id,
                  NewRow(stats[user_id].total_seconds,
                         stats[user_id].balance + amount))
         ELSE UpsertRow(stats, user_id, NewRow(0, amount))

get_balance(stats, pool, user_id) ==
    IF ~pool THEN 0
    ELSE IF user_id \in DOMAIN stats THEN stats[user_id].balance ELSE 0

get_total_time(stats, pool, user_id) ==
    IF ~pool THEN 0
    ELSE IF user_id \in DOMAIN stats THEN stats[user_id].total_seconds ELSE 0

-----------------------------------------------------------------------------
(* Session tracker and settlement: on_voice_state_update *)

PopSession_keep(sessions, member) == sessions

PopSession(sessions, member) ==
    [u \in DOMAIN sessions \ {member} |-> sessions[u]]

SetSession(sessions, member, t) ==
    [u \in DOMAIN sessions \cup {member} |-> IF u = member THEN t ELSE sessions[u]]

LeaveBranch_unguarded(sessions, stats, pool, member, before, after, t) ==
    IF before # None /\ before # after /\ member \in DOMAIN sessions
    THEN [sessions |-> PopSession(sessions, member),
          stats |-> record_vc_session(stats, pool, member,
                        t - sessions[member], IntDiv(t - sessions[member], 60)),
          raised |-> FALSE]
    ELSE [sessions |-> sessions, stats |-> stats, raised |-> FALSE]

LeaveBranch_commit_keep(sessions, stats, pool, member, before, after, t) ==
    IF before # None /\ before # after /\ member \in DOMAIN sessions
    THEN [sessions |-> sessions,
          stats |-> record_vc_session(stats, pool, member,
                        t - sessions[member], IntDiv(t - sessions[member], 60)),
          raised |-> FALSE]
    ELSE [sessions |-> sessions, stats |-> stats, raised |-> FALSE]

\* Lines 400-413.  The result is the state the leave branch reaches and whether
\* it raised: line 409 reads the name SECS_PER_CURRENCY, which the module never
\* binds, after the pop of line 402 and before the commit of line 412.
LeaveBranch(sessions, stats, pool, member, before, after, t) ==
    IF before # None /\ before # after /\ member \in DOMAIN sessions
    THEN LET join_time == sessions[member]
             popped == PopSession(sessions, member)
             duration_seconds == t - join_time
         IN  IF NameError("SECS_PER_CURRENCY")
             THEN [sessions |-> popped, stats |-> stats, raised |-> TRUE]
             ELSE LET currency_earned ==
                          IntDiv(duration_seconds, ModuleGlobals["SECS_PER_CURRENCY"])
                  IN  [sessions |-> popped,
                       stats |-> IF duration_seconds > 0
                                 THEN record_vc_session(stats, pool, member,
                                          duration_seconds, currency_earned)
                                 ELSE stats,
                       raised |-> FALSE]
    ELSE [sessions |-> sessions, stats |-> stats, raised |-> FALSE]

\* Lines 415-417, reached only when the leave branch did not raise.
JoinBranch(sessions, member, before, after, t) ==
    IF after # None /\ after # before
    THEN SetSession(sessions, member, t)
    ELSE sessions

\* A session the leave branch removes, with its whole seconds.
ClosedSeconds(sessions, member, before, after, t) ==
    IF before # None /\ before # after /\ member \in DOMAIN sessions
       /\ t - sessions[member] > 0
    THEN t - sessions[member]
    ELSE 0

OnVoiceStateUpdate(member, after) ==
    LET before == voice[member]
        left == LeaveBranch(active_sessions, user_stats, db_pool,
                            member, before, after, now)
        closed == ClosedSeconds(active_sessions, member, before, after, now)
    IN  /\ voice' = [voice EXCEPT ![member] = after]
        /\ IF member \in Bots
           THEN UNCHANGED <<active_sessions, user_stats, owed_seconds, owed_currency>>
           ELSE /\ active_sessions' =
                      IF left.raised THEN left.sessions
                      ELSE JoinBranch(left.sessions, member, before, after, now)
                /\ user_stats' = left.stats
                /\ owed_seconds' =
                      [owed_seconds EXCEPT ![member] = @ + closed]
                /\ owed_currency' =
                      [owed_currency EXCEPT ![member] = @ + (closed \div 60)]
        /\ UNCHANGED <<now, db_pool, ready, stats0, handVars, ledgerVars, wagerVars>>

OnReady_with_bots ==
    /\ ~ready
    /\ ready' = TRUE
    /\ active_sessions' =
          [u \in DOMAIN active_sessions \cup {m \in Members : voice[m] # None} |->
              IF voice[u] # None THEN now ELSE active_sessions[u]]
    /\ UNCHANGED <<now, voice, owed_seconds, owed_currency, storeVars,
                   handVars, ledgerVars, wagerVars>>

\* Lines 382-390: the startup scan of on_ready.
OnReady ==
    /\ ~ready
    /\ ready' = TRUE
    /\ active_sessions' =
          [u \in DOMAIN active_sessions \cup {m \in Users : voice[m] # None} |->
              IF voice[u] # None THEN now ELSE active_sessions[u]]
    /\ UNCHANGED <<now, voice, owed_seconds, owed_currency, storeVars,
                   handVars, ledgerVars, wagerVars>>

\* The wall clock advances.
Tick(d) ==
    /\ now + d <= MaxTime
    /\ now' = now + d
    /\ UNCHANGED <<voice, active_sessions, ready, owed_seconds, owed_currency,
                   storeVars, handVars, ledgerVars, wagerVars>>

-----------------------------------------------------------------------------
(* Read-only queries.  Each is the value the command computes, or the       *)
(* exception it raises.                                                     *)

Value(n) == [ok |-> TRUE, val |-> n]
Raised(e) == [ok |-> FALSE, val |-> e]

\* The contract of the balance resolver.
EffectiveBalance(user_id) ==
    get_balance(user_stats, db_pool, user_id)
    + (IF user_id \in DOMAIN active_sessions
       THEN (now - active_sessions[user_id]) \div 60
       ELSE 0)

\* Lines 603-614 (blackjack), 466-479 (balance), 651-662 (pay),
\* 705-716 (roulette), 878-888 (bet-horse): the same text.
PendingGuarded(sessions, user_id, t) ==
    IF user_id \in DOMAIN sessions /\ t - sessions[user_id] > 0
    THEN IF NameError("SECS_PER_CURRENCY")
         THEN Raised("NameError")
         ELSE Value(IntDiv(t - sessions[user_id], ModuleGlobals["SECS_PER_CURRENCY"]))
    ELSE Value(0)

\* Lines 931-935 (coinflip): datetime.now() is naive, join_time is aware.
PendingCoinflip(sessions, user_id, t) ==
    IF user_id \in DOMAIN sessions
    THEN Raised("TypeError")
    ELSE Value(0)

\* Lines 549-555 (leaderboard-currency).
PendingLeaderboard(sessions, user_id, t) ==
    IF user_id \in DOMAIN sessions
    THEN Value(IntDiv(t - sessions[user_id], ModuleGlobals["SECONDS_PER_CURRENCY"]))
    ELSE Value(0)

AddPending(saved, pending) ==
    IF pending.ok THEN Value(saved + pending.val) ELSE pending

balance_total(user_id) ==
    AddPending(get_balance(user_stats, db_pool, user_id),
               PendingGuarded(active_sessions, user_id, now))

coinflip_current_balance(user_id) ==
    AddPending(get_balance(user_stats, db_pool, user_id),
               PendingCoinflip(active_sessions, user_id, now))

leaderboard_currency_entry(user_id) ==
    AddPending(get_balance(user_stats, db_pool, user_id),
               PendingLeaderboard(active_sessions, user_id, now))

\* Lines 436-449 (voicetime).
voicetime_total(user_id) ==
    get_total_time(user_stats, db_pool, user_id)
    + (IF user_id \in DOMAIN active_sessions /\ now - active_sessions[user_id] > 0
       THEN now - active_sessions[user_id]
       ELSE 0)

-----------------------------------------------------------------------------
(* Spec: session tracker, settlement, queries *)

InitRows == {NewRow(0, 0), NewRow(InitSeconds, InitBalance)}

InitTables ==
    UNION {[D -> InitRows] : D \in SUBSET Users}

TickSteps == {59, 60}

Init ==
    /\ now = 0
    /\ voice \in [Members -> Channels \cup {None}]
    /\ active_sessions = <<>>
    /\ user_stats \in InitTables
    /\ db_pool = TRUE
    /\ ready = FALSE
    /\ owed_seconds = [u \in Users |-> 0]
    /\ owed_currency = [u \in Users |-> 0]
    /\ stats0 = user_stats
    /\ hand = <<>>
    /\ hand_value = 0
    /\ inflight = <<>>
    /\ issued = [u \in Users |-> NewRow(0, 0)]
    /\ calls = 0
    /\ tasks = <<>>
    /\ invoked = 0
    /\ verdicts = <<>>
    /\ games = <<>>
    /\ horse_bets = <<>>
    /\ guild_configs = <<>>
    /\ spins = <<>>
    /\ reports = <<>>
    /\ scheduler = LoopIdle
    /\ boot = Booted(db_pool)
    /\ races = <<>>

Next ==
    \/ \E d \in TickSteps : Tick(d)
    \/ \E m \in Members, c \in Channels \cup {None} : OnVoiceStateUpdate(m, c)
    \/ OnReady

Spec == Init /\ [][Next]_vars

-----------------------------------------------------------------------------
(* Cards and hand evaluation *)

\* Lines 216-217.  Ranks are kept as text; int(rank) is NumericValue.
NumericRanks == <<"2", "3", "4", "5", "6", "7", "8", "9", "10">>
FaceRanks == {"J", "Q", "K"}
Ranks == {NumericRanks[i] : i \in DOMAIN NumericRanks} \cup FaceRanks \cup {"A"}
Suits == <<"hearts", "diamonds", "clubs", "spades">>

Card(rank, suit) == [rank |-> rank, suit |-> suit]

NumericValue(rank) == 1 + CHOOSE i \in DOMAIN NumericRanks : NumericRanks[i] = rank

\* Lines 227-235: the loop over the hand.
RECURSIVE RawValue(_)
RawValue(h) ==
    IF h = <<>> THEN 0
    ELSE LET rank == Head(h).rank
         IN  (IF rank \in FaceRanks THEN 10
              ELSE IF rank = "A" THEN 11
              ELSE NumericValue(rank))
             + RawValue(Tail(h))

RECURSIVE AceCount(_)
AceCount(h) ==
    IF h = <<>> THEN 0
    ELSE (IF Head(h).rank = "A" THEN 1 ELSE 0) + AceCount(Tail(h))

DemoteAces_once(value, ace_count) ==
    IF value > 21 /\ ace_count > 0 THEN value - 10 ELSE value

\* Lines 237-239: while value > 21 and ace_count > 0.
RECURSIVE DemoteAces(_, _)
DemoteAces(value, ace_count) ==
    IF value > 21 /\ ace_count > 0
    THEN DemoteAces(value - 10, ace_count - 1)
    ELSE value

calculate_hand_value(h) == DemoteAces(RawValue(h), AceCount(h))

-----------------------------------------------------------------------------
(* SpecHand: calculate_hand_value applied to every hand of up to MaxHand    *)
(* cards; the k-th card of a rank takes the k-th suit.                      *)

RankCount(h, rank) == Cardinality({i \in DOMAIN h : h[i].rank = rank})

AddCard(rank) ==
    /\ Len(hand) < MaxHand
    /\ RankCount(hand, rank) < Len(Suits)
    /\ hand' = Append(hand, Card(rank, Suits[RankCount(hand, rank) + 1]))
    /\ hand_value' = calculate_hand_value(hand')
    /\ UNCHANGED <<sessionVars, storeVars, ledgerVars, wagerVars>>

SessionsIdle ==
    /\ now = 0
    /\ voice = [m \in Members |-> None]
    /\ active_sessions = <<>>
    /\ ready = FALSE
    /\ owed_seconds = [u \in Users |-> 0]
    /\ owed_currency = [u \in Users |-> 0]

HandIdle ==
    /\ hand = <<>>
    /\ hand_value = 0

LedgerIdle ==
    /\ inflight = <<>>
    /\ issued = [u \in Users |-> NewRow(0, 0)]
    /\ calls = 0

WagersIdle ==
    /\ tasks = <<>>
    /\ invoked = 0
    /\ verdicts = <<>>
    /\ games = <<>>
    /\ horse_bets = <<>>
    /\ guild_configs = <<>>
    /\ spins = <<>>
    /\ reports = <<>>
    /\ scheduler = LoopIdle
    /\ boot = Booted(db_pool)
    /\ races = <<>>
    /\ calls = 0

InitHand ==
    /\ SessionsIdle
    /\ user_stats = <<>>
    /\ db_pool = TRUE
    /\ stats0 = user_stats
    /\ HandIdle
    /\ LedgerIdle
    /\ WagersIdle

NextHand == \E rank \in Ranks : AddCard(rank)

SpecHand == InitHand /\ [][NextHand]_vars

-----------------------------------------------------------------------------
(* SpecLedger: handlers send update_balance and record_vc_session           *)
(* statements; the store executes each as one statement, in any order.      *)

Deltas == {-1, 1, 2}
SessionLengths == {59, 120}

CallUpdateBalance(user_id, amount) ==
    /\ calls < MaxIssued
    /\ calls' = calls + 1
    /\ inflight' = Append(inflight,
          [op |-> "update_balance", user_id |-> user_id,
           seconds |-> 0, amount |-> amount])
    /\ issued' = [issued EXCEPT ![user_id].balance = @ + amount]
    /\ UNCHANGED <<sessionVars, storeVars, handVars, wagerVars>>

CallRecordVcSession(user_id, seconds) ==
    /\ calls < MaxIssued
    /\ calls' = calls + 1
    /\ inflight' = Append(inflight,
          [op |-> "record_vc_session", user_id |-> user_id,
           seconds |-> seconds, amount |-> seconds \div 60])
    /\ issued' = [issued EXCEPT ![user_id] =
          NewRow(@.total_seconds + seconds, @.balance + (seconds \div 60))]
    /\ UNCHANGED <<sessionVars, storeVars, handVars, wagerVars>>

StoreExecute(i) ==
    /\ i \in DOMAIN inflight
    /\ user_stats' =
          IF inflight[i].op = "update_balance"
          THEN update_balance(user_stats, db_pool,
                              inflight[i].user_id, inflight[i].amount)
          ELSE record_vc_session(user_stats, db_pool, inflight[i].user_id,
                                 inflight[i].seconds, inflight[i].amount)
    /\ inflight' = Remove(inflight, i)
    /\ UNCHANGED <<sessionVars, db_pool, stats0, handVars, issued, calls, wagerVars>>

InitLedger ==
    /\ SessionsIdle
    /\ user_stats \in InitTables
    /\ db_pool \in BOOLEAN
    /\ stats0 = user_stats
    /\ HandIdle
    /\ LedgerIdle
    /\ WagersIdle

NextLedger ==
    \/ \E u \in Users, a \in Deltas : CallUpdateBalance(u, a)
    \/ \E u \in Users, s \in SessionLengths : CallRecordVcSession(u, s)
    \/ \E i \in 1..MaxIssued : StoreExecute(i)

SpecLedger == InitLedger /\ [][NextLedger]_vars

-----------------------------------------------------------------------------
(* Command handlers.  A handler is a task: its local variables and the      *)
(* place it resumes at.  One action is the code from one await of a store   *)
(* statement to the next, ending with the execution of that statement.      *)

Put(f, k, v) == [x \in DOMAIN f \cup {k} |-> IF x = k THEN v ELSE f[x]]
Drop(f, k) == [x \in DOMAIN f \ {k} |-> f[x]]

NewTask(cmd, user_id, guild_id, amount, choice) ==
    [cmd |-> cmd, user_id |-> user_id, guild_id |-> guild_id, amount |-> amount,
     choice |-> choice, pc |-> "entry", now |-> 0, saved |-> 0,
     current_balance |-> 0, old_bet_amount |-> 0]

\* A slash command arrives and its handler is scheduled.
Invoke(cmd, user_id, guild_id, amount, choice) ==
    /\ invoked < MaxCommands
    /\ invoked' = invoked + 1
    /\ tasks' = Put(tasks, invoked + 1, NewTask(cmd, user_id, guild_id, amount, choice))
    /\ UNCHANGED <<sessionVars, storeVars, handVars, ledgerVars,
                   verdicts, games, horse_bets, guild_configs, spins, races,
                   reports, scheduler, boot>>

AtPc(id, cmd, pc) ==
    /\ id \in DOMAIN tasks
    /\ tasks[id].cmd = cmd
    /\ tasks[id].pc = pc

\* The handler returns or raises: nothing but the task changes.
Exit(id, verdict) ==
    /\ tasks' = Drop(tasks, id)
    /\ verdicts' = Put(verdicts, id, verdict)
    /\ UNCHANGED <<user_stats, games, horse_bets>>

\* Lines 616, 718, 939 (and 664, 894): if amount > current_balance.
Insufficient(amount, current_balance) == amount > current_balance

\* The common tail of the validation: the debit of lines 624, 726, 947.
ValidateAndDebit(id, current, next_pc) ==
    LET t == tasks[id]
    IN  IF ~current.ok
        THEN Exit(id, current.val)
        ELSE IF Insufficient(t.amount, current.val)
        THEN Exit(id, "insufficient")
        ELSE /\ user_stats' = update_balance(user_stats, db_pool, t.user_id, -t.amount)
             /\ tasks' = [tasks EXCEPT ![id].pc = next_pc,
                                       ![id].current_balance = current.val - t.amount]
             /\ verdicts' = Put(verdicts, id, "accepted")
             /\ UNCHANGED <<games, horse_bets>>

HandlerFrame ==
    UNCHANGED <<sessionVars, db_pool, stats0, handVars, ledgerVars,
                invoked, guild_configs, spins, races, reports, scheduler, boot>>

(* coinflip, lines 923-971 *)

CoinflipEntry(id) ==
    /\ AtPc(id, "coinflip", "entry")
    /\ IF tasks[id].amount <= 0
       THEN Exit(id, "nonpositive")
       ELSE /\ tasks' = [tasks EXCEPT
                  ![id].saved = get_balance(user_stats, db_pool, tasks[id].user_id),
                  ![id].pc = "validate"]
            /\ UNCHANGED <<verdicts, user_stats, games, horse_bets>>
    /\ HandlerFrame

CoinflipValidate(id) ==
    /\ AtPc(id, "coinflip", "validate")
    /\ ValidateAndDebit(id,
          AddPending(tasks[id].saved,
                     PendingCoinflip(active_sessions, tasks[id].user_id, now)),
          "outcome")
    /\ HandlerFrame

CoinflipOutcome(id, is_win) ==
    /\ AtPc(id, "coinflip", "outcome")
    /\ user_stats' =
          IF is_win
          THEN update_balance(user_stats, db_pool, tasks[id].user_id,
                              tasks[id].amount * 2)
          ELSE user_stats
    /\ tasks' = Drop(tasks, id)
    /\ UNCHANGED <<verdicts, games, horse_bets>>
    /\ HandlerFrame

(* roulette, lines 700-807 *)

REDS == {1, 3, 5, 7, 9, 12, 14, 16, 18, 19, 21, 23, 25, 27, 30, 32, 34, 36}
BLACKS == {2, 4, 6, 8, 10, 11, 13, 15, 17, 20, 22, 24, 26, 28, 29, 31, 33, 35}
RouletteBets == {"Red", "Black", "Even", "Odd", "Green"}
SpinResults == 0..36

SpinColor(spin_result) ==
    IF spin_result \in REDS THEN "Red"
    ELSE IF spin_result \in BLACKS THEN "Black"
    ELSE "Green"

SpinParity(spin_result) ==
    IF spin_result = 0 THEN "None"
    ELSE IF spin_result % 2 = 0 THEN "Even" ELSE "Odd"

RouletteResult_green_as_colour(bet, spin_result) ==
    IF bet = SpinColor(spin_result) \/ bet = SpinParity(spin_result)
    THEN [is_win |-> TRUE, payout_multiplier |-> 1]
    ELSE [is_win |-> FALSE, payout_multiplier |-> 0]

\* Lines 764-776.
RouletteResult(bet, spin_result) ==
    LET first == IF bet = SpinColor(spin_result) \/ bet = SpinParity(spin_result)
                 THEN [is_win |-> TRUE, payout_multiplier |-> 1]
                 ELSE [is_win |-> FALSE, payout_multiplier |-> 0]
    IN  IF bet = "Green" /\ SpinColor(spin_result) = "Green"
        THEN [is_win |-> TRUE, payout_multiplier |-> 35]
        ELSE first

\* Lines 784-788: total_payout, or 0 when nothing is credited.
RoulettePayout(bet, spin_result, amount) ==
    IF RouletteResult(bet, spin_result).is_win
    THEN amount * RouletteResult(bet, spin_result).payout_multiplier + amount
    ELSE 0

RouletteEntry(id) ==
    /\ AtPc(id, "roulette", "entry")
    /\ tasks' = [tasks EXCEPT
          ![id].now = now,
          ![id].saved = get_balance(user_stats, db_pool, tasks[id].user_id),
          ![id].pc = "validate"]
    /\ UNCHANGED <<verdicts, user_stats, games, horse_bets>>
    /\ HandlerFrame

RouletteValidate(id) ==
    /\ AtPc(id, "roulette", "validate")
    /\ ValidateAndDebit(id,
          AddPending(tasks[id].saved,
                     PendingGuarded(active_sessions, tasks[id].user_id, tasks[id].now)),
          "outcome")
    /\ HandlerFrame

\* Lines 752-807: the spin, the credit of a win, and the result shown.
RouletteSpin(id, spin_result) ==
    /\ AtPc(id, "roulette", "outcome")
    /\ LET payout == RoulettePayout(tasks[id].choice, spin_result, tasks[id].amount)
       IN  /\ user_stats' =
                 IF payout > 0
                 THEN update_balance(user_stats, db_pool, tasks[id].user_id, payout)
                 ELSE user_stats
           /\ spins' = Put(spins, id,
                 [bet |-> tasks[id].choice, amount |-> tasks[id].amount,
                  spin_result |-> spin_result, credited |-> payout])
    /\ tasks' = Drop(tasks, id)
    /\ UNCHANGED <<verdicts, games, horse_bets>>
    /\ UNCHANGED <<sessionVars, db_pool, stats0, handVars, ledgerVars,
                   invoked, guild_configs, races, reports, scheduler, boot>>

(* blackjack, lines 595-628, and BlackjackView, lines 973-1122 *)

\* The cards of the model's deck, a part of the 52 of create_deck.  The deck
\* is shuffled and popped from its end: each pop takes any card still in it.
DeckOrder ==
    << Card("A", "hearts"), Card("K", "hearts"), Card("A", "diamonds"),
       Card("Q", "diamonds"), Card("9", "hearts"), Card("7", "hearts"),
       Card("5", "hearts"), Card("6", "diamonds"), Card("10", "clubs"),
       Card("2", "spades") >>

create_deck(size) == {DeckOrder[i] : i \in 1..size}

\* Lines 974-984: BlackjackView.__init__ with the four cards popped.
NewGame(t, deck, p1, p2, d1, d2) ==
    [player |-> t.user_id, bet_amount |-> t.amount,
     current_balance |-> t.current_balance, game_over |-> FALSE,
     deck |-> deck \ {p1, p2, d1, d2},
     player_hand |-> <<p1, p2>>, dealer_hand |-> <<d1, d2>>,
     view |-> "unsent", pending |-> <<>>, credited |-> 0, results |-> <<>>,
     clicks |-> 0, last_user |-> None, last_button |-> None]

\* Lines 1044-1060: what end_game credits.
Payout(result, bet_amount) ==
    IF result = "win" THEN bet_amount * 2
    ELSE IF result = "push" THEN bet_amount
    ELSE 0

\* Lines 1037-1060, up to the await: disable_buttons sets game_over, the
\* credit is on its way to the store.
EndGameBegin(g, result) ==
    [g EXCEPT !.game_over = TRUE,
              !.pending = Append(@, Payout(result, g.bet_amount)),
              !.results = Append(@, result)]

NaturalBlackjack_never(player_score) == FALSE

\* Line 990.
NaturalBlackjack(player_score) == player_score = 21

\* Lines 986-994.
start_game(g) ==
    IF NaturalBlackjack(calculate_hand_value(g.player_hand))
    THEN EndGameBegin(g, "win")
    ELSE [g EXCEPT !.view = "active"]

RECURSIVE DealerPlay_hit_17(_, _)
DealerPlay_hit_17(deck, dealer_hand) ==
    IF calculate_hand_value(dealer_hand) <= 17
    THEN UNION {DealerPlay_hit_17(deck \ {c}, Append(dealer_hand, c)) : c \in deck}
    ELSE {[deck |-> deck, dealer_hand |-> dealer_hand]}

\* Lines 1107-1111: the hands the dealer's loop can end with.
RECURSIVE DealerPlay(_, _)
DealerPlay(deck, dealer_hand) ==
    IF calculate_hand_value(dealer_hand) < 17
    THEN UNION {DealerPlay(deck \ {c}, Append(dealer_hand, c)) : c \in deck}
    ELSE {[deck |-> deck, dealer_hand |-> dealer_hand]}

DealerResult_compare_first(dealer_score, player_score) ==
    IF dealer_score > player_score THEN "lose"
    ELSE IF dealer_score > 21 THEN "win"
    ELSE IF player_score > dealer_score THEN "win"
    ELSE "push"

\* Lines 1113-1122.
DealerResult(dealer_score, player_score) ==
    IF dealer_score > 21 THEN "win"
    ELSE IF dealer_score > player_score THEN "lose"
    ELSE IF player_score > dealer_score THEN "win"
    ELSE "push"

\* Lines 1105-1122: the games dealer_turn can leave.
dealer_turn(g) ==
    {EndGameBegin([g EXCEPT !.deck = o.deck, !.dealer_hand = o.dealer_hand],
                  DealerResult(calculate_hand_value(o.dealer_hand),
                               calculate_hand_value(g.player_hand)))
        : o \in DealerPlay(g.deck, g.dealer_hand)}

GameFrame ==
    UNCHANGED <<sessionVars, db_pool, stats0, handVars, ledgerVars,
                tasks, invoked, verdicts, horse_bets, guild_configs, spins, races,
                reports, scheduler, boot>>

BlackjackEntry(id) ==
    /\ AtPc(id, "blackjack", "entry")
    /\ IF tasks[id].amount <= 0
       THEN Exit(id, "nonpositive")
       ELSE /\ tasks' = [tasks EXCEPT
                  ![id].now = now,
                  ![id].saved = get_balance(user_stats, db_pool, tasks[id].user_id),
                  ![id].pc = "validate"]
            /\ UNCHANGED <<verdicts, user_stats, games, horse_bets>>
    /\ HandlerFrame

BlackjackValidate(id) ==
    /\ AtPc(id, "blackjack", "validate")
    /\ ValidateAndDebit(id,
          AddPending(tasks[id].saved,
                     PendingGuarded(active_sessions, tasks[id].user_id, tasks[id].now)),
          "start")
    /\ HandlerFrame

\* Lines 627-628: the view is built and start_game runs.
BlackjackStart(id, size) ==
    /\ AtPc(id, "blackjack", "start")
    /\ \E p1, p2, d1, d2 \in create_deck(size) :
          /\ Cardinality({p1, p2, d1, d2}) = 4
          /\ games' = Put(games, id,
                start_game(NewGame(tasks[id], create_deck(size), p1, p2, d1, d2)))
    /\ tasks' = Drop(tasks, id)
    /\ UNCHANGED <<verdicts, user_stats, horse_bets>>
    /\ HandlerFrame

NotYourGame_never(clicker, g) == FALSE

\* Lines 1080, 1098: if interaction.user.id != self.player.id.
NotYourGame(clicker, g) == clicker # g.player

\* The view receives a button interaction of clicker.
Clicked(g, clicker, button) ==
    [g EXCEPT !.clicks = @ + 1, !.last_user = clicker, !.last_button = button]

HitOutcome_no_auto(player_score) ==
    IF player_score > 21 THEN "bust" ELSE "continue"

\* Lines 1086-1094: what follows the drawn card.
HitOutcome(player_score) ==
    IF player_score > 21 THEN "bust"
    ELSE IF player_score = 21 THEN "dealer_turn"
    ELSE "continue"

\* Lines 1078-1094.  clicks counts the button interactions the view received.
Hit(id, clicker) ==
    /\ id \in DOMAIN games
    /\ games[id].view = "active"
    /\ games[id].clicks < MaxClicks
    /\ IF NotYourGame(clicker, games[id])
       THEN games' = Put(games, id, Clicked(games[id], clicker, "hit"))
       ELSE \E c \in games[id].deck :
          LET g == [Clicked(games[id], clicker, "hit") EXCEPT
                       !.deck = @ \ {c}, !.player_hand = Append(@, c)]
              player_score == calculate_hand_value(g.player_hand)
          IN  IF HitOutcome(player_score) = "bust"
              THEN games' = Put(games, id, EndGameBegin(g, "lose"))
              ELSE IF HitOutcome(player_score) = "dealer_turn"
              THEN \E done \in dealer_turn(g) : games' = Put(games, id, done)
              ELSE games' = Put(games, id, g)
    /\ UNCHANGED user_stats
    /\ GameFrame

\* Lines 1096-1103.
Stand(id, clicker) ==
    /\ id \in DOMAIN games
    /\ games[id].view = "active"
    /\ games[id].clicks < MaxClicks
    /\ IF NotYourGame(clicker, games[id])
       THEN games' = Put(games, id, Clicked(games[id], clicker, "stand"))
       ELSE \E done \in dealer_turn(Clicked(games[id], clicker, "stand")) :
               games' = Put(games, id, done)
    /\ UNCHANGED user_stats
    /\ GameFrame

on_timeout_unguarded(g) == EndGameBegin(g, "lose")

\* Lines 1073-1075.
on_timeout(g) == IF g.game_over THEN g ELSE EndGameBegin(g, "lose")

\* The view's timeout fires; the library stops dispatching to a view that
\* timed out.
OnTimeout(id) ==
    /\ id \in DOMAIN games
    /\ games[id].view = "active"
    /\ games' = Put(games, id, on_timeout([games[id] EXCEPT !.view = "stopped"]))
    /\ UNCHANGED user_stats
    /\ GameFrame

\* Lines 1046/1058 and 1062-1071: the credit of one end_game call is executed,
\* the message is edited and the view stopped.
EndGameFinish(id, i) ==
    /\ id \in DOMAIN games
    /\ i \in DOMAIN games[id].pending
    /\ LET payout == games[id].pending[i]
       IN  /\ user_stats' =
                 IF payout > 0
                 THEN update_balance(user_stats, db_pool, games[id].player, payout)
                 ELSE user_stats
           /\ games' = [games EXCEPT ![id].pending = Remove(@, i),
                                     ![id].credited = @ + payout,
                                     ![id].view = "stopped"]
    /\ GameFrame

(* bet-horse, lines 851-918 *)

RACE_LOCKOUT_MINUTES == {0, 1, 2, 30, 31, 32}
HORSE_COLORS == <<"Red", "Blue", "Green", "Yellow", "Purple">>

\* The minute of the hour at which the model's clock starts.
StartMinute == 59

\* now.minute
Minute(t) == (StartMinute + t \div 60) % 60

\* Lines 114-124: place_bet.
place_bet(bets, pool, user_id, guild_id, amount, color) ==
    IF ~pool THEN bets
    ELSE Put(bets, <<user_id, guild_id>>, [bet_amount |-> amount, horse_color |-> color])

\* Lines 138-142, 890-891: the stored stake, 0 without a bet.
OldBetAmount(bets, pool, user_id, guild_id) ==
    IF pool /\ <<user_id, guild_id>> \in DOMAIN bets
    THEN bets[<<user_id, guild_id>>].bet_amount
    ELSE 0

\* Lines 864-867: the guild's configuration is read.
BetHorseEntry(id) ==
    /\ AtPc(id, "bet_horse", "entry")
    /\ IF ~(db_pool /\ tasks[id].guild_id \in DOMAIN guild_configs)
       THEN Exit(id, "not_configured")
       ELSE /\ tasks' = [tasks EXCEPT ![id].pc = "lockout"]
            /\ UNCHANGED <<verdicts, user_stats, games, horse_bets>>
    /\ HandlerFrame

\* Lines 869-878: the lockout, then the balance is read.
BetHorseLockout(id) ==
    /\ AtPc(id, "bet_horse", "lockout")
    /\ IF Minute(now) \in RACE_LOCKOUT_MINUTES
       THEN Exit(id, "locked")
       ELSE /\ tasks' = [tasks EXCEPT
                  ![id].now = now,
                  ![id].saved = get_balance(user_stats, db_pool, tasks[id].user_id),
                  ![id].pc = "old_bet"]
            /\ UNCHANGED <<verdicts, user_stats, games, horse_bets>>
    /\ HandlerFrame

\* Lines 879-890: the pending currency, then the stored bet is read.
BetHorseOldBet(id) ==
    /\ AtPc(id, "bet_horse", "old_bet")
    /\ LET t == tasks[id]
           current == AddPending(t.saved,
                          PendingGuarded(active_sessions, t.user_id, t.now))
       IN  IF ~current.ok
           THEN Exit(id, current.val)
           ELSE /\ tasks' = [tasks EXCEPT
                      ![id].current_balance = current.val,
                      ![id].old_bet_amount =
                          OldBetAmount(horse_bets, db_pool, t.user_id, t.guild_id),
                      ![id].pc = "validate"]
                /\ UNCHANGED <<verdicts, user_stats, games, horse_bets>>
    /\ HandlerFrame

\* Lines 891-902: the difference is checked and debited.
BetHorseValidate(id) ==
    /\ AtPc(id, "bet_horse", "validate")
    /\ LET t == tasks[id]
           cost_to_change == t.amount - t.old_bet_amount
       IN  IF Insufficient(cost_to_change, t.current_balance)
           THEN Exit(id, "insufficient")
           ELSE /\ user_stats' =
                      update_balance(user_stats, db_pool, t.user_id, -cost_to_change)
                /\ tasks' = [tasks EXCEPT ![id].pc = "place"]
                /\ verdicts' = Put(verdicts, id, "accepted")
                /\ UNCHANGED <<games, horse_bets>>
    /\ HandlerFrame

\* Line 903: the bet is stored.
BetHorsePlace(id) ==
    /\ AtPc(id, "bet_horse", "place")
    /\ horse_bets' = place_bet(horse_bets, db_pool, tasks[id].user_id,
                               tasks[id].guild_id, tasks[id].amount, tasks[id].choice)
    /\ tasks' = Drop(tasks, id)
    /\ UNCHANGED <<verdicts, user_stats, games>>
    /\ HandlerFrame

-----------------------------------------------------------------------------
(* Horse races: start_race_loop, run_global_races, run_race_in_channel,     *)
(* lines 253-360                                                            *)

RACE_TRACK_LENGTH == 20
RACE_PAYOUT_MULTIPLIER == 4
RACE_MINUTES == {0, 30}
Horses == {HORSE_COLORS[i] : i \in DOMAIN HORSE_COLORS}

\* Line 309: the values random.choice([1, 1, 2, 2, 3]) can return.
MoveChoices == {1, 2, 3}

Advance_stall(position, move) == position

\* Line 310: horse_positions[color] += move.
Advance(position, move) == position + move

\* Line 312.
Finished(position) == position >= RACE_TRACK_LENGTH

RECURSIVE MoveFrom_nobreak(_, _, _)
MoveFrom_nobreak(i, horse_positions, moves) ==
    IF i > Len(HORSE_COLORS)
    THEN [horse_positions |-> horse_positions, winner |-> None]
    ELSE LET color == HORSE_COLORS[i]
             moved == [horse_positions EXCEPT ![color] = Advance(@, moves[color])]
             rest == MoveFrom_nobreak(i + 1, moved, moves)
         IN  IF Finished(moved[color]) /\ rest.winner = None
             THEN [rest EXCEPT !.winner = color]
             ELSE rest

\* Lines 308-314: the for loop of one tick from the i-th horse on, leaving
\* at the first horse that reaches the end of the track.
RECURSIVE MoveFrom(_, _, _)
MoveFrom(i, horse_positions, moves) ==
    IF i > Len(HORSE_COLORS)
    THEN [horse_positions |-> horse_positions, winner |-> None]
    ELSE LET color == HORSE_COLORS[i]
             moved == [horse_positions EXCEPT ![color] = Advance(@, moves[color])]
         IN  IF Finished(moved[color])
             THEN [horse_positions |-> moved, winner |-> color]
             ELSE MoveFrom(i + 1, moved, moves)

\* Lines 281 and 304: the locals of a race that has sent its first message.
NewRace ==
    [pc |-> "loop", horse_positions |-> [c \in Horses |-> 0], winner |-> None,
     bets |-> {}, paid |-> <<>>]

RaceFrame ==
    UNCHANGED <<sessionVars, db_pool, stats0, handVars, ledgerVars,
                tasks, invoked, verdicts, games, spins, reports, scheduler, boot>>

\* Lines 253-303: the loop's iteration of a race minute starts the race of a
\* configured guild; the first message is sent, refused (discord.Forbidden)
\* or fails otherwise.
StartRace(guild_id, sent) ==
    /\ Minute(now) \in RACE_MINUTES
    /\ db_pool
    /\ guild_id \in DOMAIN guild_configs
    /\ guild_id \notin DOMAIN races
    /\ races' = Put(races, guild_id,
          IF sent = "ok" THEN NewRace ELSE [NewRace EXCEPT !.pc = "aborted"])
    /\ guild_configs' =
          IF sent = "forbidden" THEN Drop(guild_configs, guild_id) ELSE guild_configs
    /\ UNCHANGED <<user_stats, horse_bets>>
    /\ RaceFrame

\* Lines 305-316: one tick of the race.
RaceTick(guild_id, moves) ==
    /\ guild_id \in DOMAIN races
    /\ races[guild_id].pc = "loop"
    /\ LET tick == MoveFrom(1, races[guild_id].horse_positions, moves)
       IN  races' = [races EXCEPT
              ![guild_id].horse_positions = tick.horse_positions,
              ![guild_id].winner = tick.winner,
              ![guild_id].pc = IF tick.winner = None THEN "loop" ELSE "final"]
    /\ UNCHANGED <<user_stats, horse_bets, guild_configs>>
    /\ RaceFrame

\* Lines 126-130: get_bets_for_guild.
get_bets_for_guild(bets, pool, guild_id) ==
    IF ~pool THEN {}
    ELSE {[user_id |-> k[1], bet_amount |-> bets[k].bet_amount,
           horse_color |-> bets[k].horse_color] : k \in {x \in DOMAIN bets : x[2] = guild_id}}

\* Lines 132-136: clear_bets_for_guild.
clear_bets_for_guild(bets, pool, guild_id) ==
    IF ~pool THEN bets
    ELSE [k \in {x \in DOMAIN bets : x[2] # guild_id} |-> bets[k]]

TotalPayout_winnings_only(bet_amount) == bet_amount * RACE_PAYOUT_MULTIPLIER

\* Lines 346-347: winnings + bet_amount.
TotalPayout(bet_amount) == bet_amount * RACE_PAYOUT_MULTIPLIER + bet_amount

\* Lines 318-328: the final message, then the guild's bets are read; without
\* bets the race ends here.
RaceGetBets(guild_id) ==
    /\ guild_id \in DOMAIN races
    /\ races[guild_id].pc = "final"
    /\ LET bets == get_bets_for_guild(horse_bets, db_pool, guild_id)
       IN  races' = [races EXCEPT
              ![guild_id].bets = bets,
              ![guild_id].pc = IF bets = {} THEN "done" ELSE "pay"]
    /\ UNCHANGED <<user_stats, horse_bets, guild_configs>>
    /\ RaceFrame

\* Lines 340-352: the next bet read is resolved, a winning one credited.
RacePay(guild_id, bet) ==
    /\ guild_id \in DOMAIN races
    /\ races[guild_id].pc = "pay"
    /\ bet \in races[guild_id].bets
    /\ bet.user_id \notin DOMAIN races[guild_id].paid
    /\ LET total_payout ==
              IF bet.horse_color = races[guild_id].winner
              THEN TotalPayout(bet.bet_amount) ELSE 0
       IN  /\ user_stats' =
                 IF total_payout > 0
                 THEN update_balance(user_stats, db_pool, bet.user_id, total_payout)
                 ELSE user_stats
           /\ races' = [races EXCEPT
                 ![guild_id].paid = Put(@, bet.user_id, total_payout)]
    /\ UNCHANGED <<horse_bets, guild_configs>>
    /\ RaceFrame

\* Lines 354-357: the results are announced and the guild's bets cleared; if
\* channel.send raises, the coroutine ends before clear_bets_for_guild.
RaceAnnounce(guild_id, sent) ==
    /\ guild_id \in DOMAIN races
    /\ races[guild_id].pc = "pay"
    /\ \A bet \in races[guild_id].bets : bet.user_id \in DOMAIN races[guild_id].paid
    /\ IF sent = "ok"
       THEN /\ horse_bets' = clear_bets_for_guild(horse_bets, db_pool, guild_id)
            /\ races' = [races EXCEPT ![guild_id].pc = "done"]
       ELSE /\ horse_bets' = horse_bets
            /\ races' = [races EXCEPT ![guild_id].pc = "failed"]
    /\ UNCHANGED <<user_stats, guild_configs>>
    /\ RaceFrame

\* The moves of a tick in which the horses outside free keep together.
PackMoves(free) ==
    {m \in [Horses -> MoveChoices] :
        \A c, d \in Horses \ free : m[c] = m[d]}

-----------------------------------------------------------------------------
(* Query commands: voicetime, balance, leaderboard-time and                 *)
(* leaderboard-currency.  Each reads the store, is suspended on that        *)
(* statement, and on resuming reads the clock and active_sessions.          *)

\* The user ids of the leaderboards, in the order of their creation.
BoardOrder ==
    <<"u1", "u2", "u3", "u4", "u5", "u6", "u7", "u8", "u9", "u10", "u11", "u12",
      "u13", "u14">>

BoardIndex(user_id) == CHOOSE i \in DOMAIN BoardOrder : BoardOrder[i] = user_id

\* A dict is a sequence of items in insertion order.
Item(user_id, value) == [user_id |-> user_id, value |-> value]
Keys(data) == {data[i].user_id : i \in DOMAIN data}

\* data.get(user_id, 0)
DictGet(data, user_id) ==
    IF user_id \in Keys(data)
    THEN data[CHOOSE i \in DOMAIN data : data[i].user_id = user_id].value
    ELSE 0

\* data[user_id] = value: an existing key keeps its place, a new one is last.
DictSet(data, user_id, value) ==
    IF user_id \in Keys(data)
    THEN [i \in DOMAIN data |->
             IF data[i].user_id = user_id THEN Item(user_id, value) ELSE data[i]]
    ELSE Append(data, Item(user_id, value))

\* The members of a set of user ids as a sequence, ascending or descending
\* in BoardOrder.
RECURSIVE InOrder(_, _)
InOrder(ids, ascending) ==
    IF ids = {} THEN <<>>
    ELSE LET first == CHOOSE u \in ids :
                          \A v \in ids :
                              IF ascending THEN BoardIndex(u) <= BoardIndex(v)
                              ELSE BoardIndex(u) >= BoardIndex(v)
         IN  <<first>> \o InOrder(ids \ {first}, ascending)

\* The statements of lines 184 and 191 have no ORDER BY: the rows come in an
\* order the store chooses.  The model lets it choose between two.
RowOrders == {TRUE, FALSE}

\* Lines 180-185: get_all_time_data.
get_all_time_data(stats, pool, ascending) ==
    IF ~pool THEN <<>>
    ELSE LET order == InOrder(DOMAIN stats, ascending)
         IN  [i \in DOMAIN order |-> Item(order[i], stats[order[i]].total_seconds)]

\* Lines 187-192: get_all_currency_data.
get_all_currency_data(stats, pool, ascending) ==
    IF ~pool THEN <<>>
    ELSE LET order == InOrder(DOMAIN stats, ascending)
         IN  [i \in DOMAIN order |-> Item(order[i], stats[order[i]].balance)]

\* Lines 498 and 501 (time): int(current_session_seconds); lines 550-551
\* (currency): int(current_session_seconds / SECONDS_PER_CURRENCY).
LiveContribution(cmd, current_session_seconds) ==
    IF cmd = "leaderboard_time"
    THEN current_session_seconds
    ELSE IntDiv(current_session_seconds, ModuleGlobals["SECONDS_PER_CURRENCY"])

\* Lines 497-502 and 549-555: the loop over active_sessions.items(), whose
\* remaining keys are order.
RECURSIVE MergeSessions(_, _, _, _, _)
MergeSessions(cmd, data, order, sessions, t) ==
    IF order = <<>> THEN data
    ELSE LET user_id == Head(order)
             saved == DictGet(data, user_id)
         IN  MergeSessions(cmd,
                 DictSet(data, user_id,
                         saved + LiveContribution(cmd, t - sessions[user_id])),
                 Tail(order), sessions, t)

InsertItem_ties_first(sorted, item) ==
    LET before == {i \in DOMAIN sorted : sorted[i].value > item.value}
        k == Cardinality(before)
    IN  SubSeq(sorted, 1, k) \o <<item>> \o SubSeq(sorted, k + 1, Len(sorted))

\* One item enters a list sorted by value, largest first, behind the items
\* of the same value.
InsertItem(sorted, item) ==
    LET before == {i \in DOMAIN sorted : sorted[i].value >= item.value}
        k == Cardinality(before)
    IN  SubSeq(sorted, 1, k) \o <<item>> \o SubSeq(sorted, k + 1, Len(sorted))

\* Lines 504 and 557: sorted(data.items(), key=lambda item: item[1],
\* reverse=True), a stable sort.
RECURSIVE sorted_leaderboard(_)
sorted_leaderboard(data) ==
    IF data = <<>> THEN <<>>
    ELSE InsertItem(sorted_leaderboard(SubSeq(data, 1, Len(data) - 1)),
                    data[Len(data)])

\* Lines 506 and 559: sorted_leaderboard[:10].
top_10(sorted) == SubSeq(sorted, 1, IF Len(sorted) < 10 THEN Len(sorted) ELSE 10)

QueryCommands == {"voicetime", "balance"}
LeaderboardCommands == {"leaderboard_time", "leaderboard_currency"}

NewQuery(cmd, user_id) ==
    [cmd |-> cmd, user_id |-> user_id, pc |-> "entry", saved |-> 0,
     leaderboard_data |-> <<>>]

QueryFrame ==
    UNCHANGED <<sessionVars, storeVars, handVars, ledgerVars,
                verdicts, games, horse_bets, guild_configs, spins, races,
                scheduler, boot>>

\* A query command arrives: user_id is the user asked about (none for a
\* leaderboard).
InvokeQuery(cmd, user_id) ==
    /\ invoked < MaxCommands
    /\ invoked' = invoked + 1
    /\ tasks' = Put(tasks, invoked + 1, NewQuery(cmd, user_id))
    /\ UNCHANGED reports
    /\ QueryFrame

\* Lines 436 and 466: the persisted value is read.
QueryFetch(id) ==
    /\ id \in DOMAIN tasks
    /\ tasks[id].cmd \in QueryCommands
    /\ tasks[id].pc = "entry"
    /\ tasks' = [tasks EXCEPT
          ![id].saved =
              IF tasks[id].cmd = "voicetime"
              THEN get_total_time(user_stats, db_pool, tasks[id].user_id)
              ELSE get_balance(user_stats, db_pool, tasks[id].user_id),
          ![id].pc = "report"]
    /\ UNCHANGED <<invoked, reports>>
    /\ QueryFrame

\* Lines 437-449 (voicetime) and 467-479 (balance): the live part of an open
\* session is added and the total shown, unless the computation raises.
QueryTotal(t, sessions, clock) ==
    IF t.cmd = "voicetime"
    THEN Value(t.saved
               + (IF t.user_id \in DOMAIN sessions /\ clock - sessions[t.user_id] > 0
                  THEN clock - sessions[t.user_id]
                  ELSE 0))
    ELSE AddPending(t.saved, PendingGuarded(sessions, t.user_id, clock))

QueryReport(id) ==
    /\ id \in DOMAIN tasks
    /\ tasks[id].cmd \in QueryCommands
    /\ tasks[id].pc = "report"
    /\ LET total == QueryTotal(tasks[id], active_sessions, now)
       IN  reports' =
              IF total.ok
              THEN Put(reports, id,
                       [cmd |-> tasks[id].cmd, user_id |-> tasks[id].user_id,
                        now |-> now, shown |-> total.val])
              ELSE reports
    /\ tasks' = Drop(tasks, id)
    /\ UNCHANGED invoked
    /\ QueryFrame

\* Lines 494 and 546: the table is read.
LeaderboardFetch(id, ascending) ==
    /\ id \in DOMAIN tasks
    /\ tasks[id].cmd \in LeaderboardCommands
    /\ tasks[id].pc = "entry"
    /\ tasks' = [tasks EXCEPT
          ![id].leaderboard_data =
              IF tasks[id].cmd = "leaderboard_time"
              THEN get_all_time_data(user_stats, db_pool, ascending)
              ELSE get_all_currency_data(user_stats, db_pool, ascending),
          ![id].pc = "report"]
    /\ UNCHANGED <<invoked, reports>>
    /\ QueryFrame

\* Lines 496-506 and 548-559: the open sessions are merged, the items sorted
\* and cut to ten.  original is the order of the dict before the sort.
LeaderboardReport(id, ascending) ==
    /\ id \in DOMAIN tasks
    /\ tasks[id].cmd \in LeaderboardCommands
    /\ tasks[id].pc = "report"
    /\ LET merged == MergeSessions(tasks[id].cmd, tasks[id].leaderboard_data,
                         InOrder(DOMAIN active_sessions, ascending),
                         active_sessions, now)
       IN  reports' = Put(reports, id,
              [cmd |-> tasks[id].cmd, now |-> now,
               original |-> [i \in DOMAIN merged |-> merged[i].user_id],
               shown |-> top_10(sorted_leaderboard(merged))])
    /\ tasks' = Drop(tasks, id)
    /\ UNCHANGED invoked
    /\ QueryFrame

-----------------------------------------------------------------------------
(* The race scheduler: start_race_loop and run_global_races, lines 253-271. *)
(* A race is followed only from its creation to its end: it returns, or it  *)
(* raises at an await outside its try block (lines 316, 321, 327, 355).     *)
(* Its first message (line 294) is sent, is refused for lack of permission  *)
(* or fails otherwise; sent holds the races whose first message went out.   *)

Guilds == {"g1", "g2"}

\* What a race raises: a discord.HTTPException, or an error of the connection
\* (OSError, aiohttp.ClientError, asyncio.TimeoutError), after which a
\* tasks.loop with the default reconnect=True runs its body again.
RaceErrors == {"http", "connection"}

SchedFrame ==
    UNCHANGED <<sessionVars, storeVars, handVars, ledgerVars, tasks, invoked,
                verdicts, games, horse_bets, spins, races, reports, boot>>

\* Lines 812-826 and 85-94: setup-horserace stores the guild's channel.
SetRaceChannel(guild_id) ==
    /\ db_pool
    /\ guild_id \notin DOMAIN guild_configs
    /\ guild_configs' = Put(guild_configs, guild_id, "race-channel")
    /\ UNCHANGED scheduler
    /\ SchedFrame

\* Lines 830-836 and 96-100: disable-horserace deletes it.
RemoveRaceChannel(guild_id) ==
    /\ db_pool
    /\ guild_id \in DOMAIN guild_configs
    /\ guild_configs' = Drop(guild_configs, guild_id)
    /\ UNCHANGED scheduler
    /\ SchedFrame

\* Lines 102-106: the guilds of get_all_race_configs.
get_all_race_configs(configs, pool) == IF ~pool THEN {} ELSE DOMAIN configs

\* Lines 262-270: one coroutine per configuration, handed to asyncio.gather.
run_global_races(s, guild_ids) ==
    LET run == s.runs + 1
        created == {<<run, g>> : g \in guild_ids}
    IN  [s EXCEPT !.pc = "gather",
                  !.runs = run,
                  !.coros = [k \in DOMAIN s.coros \cup created |->
                                IF k \in created THEN "running" ELSE s.coros[k]]]

\* Lines 254-260: the body of the loop.
start_race_loop(s, t, guild_ids) ==
    IF Minute(t) \in RACE_MINUTES
    THEN run_global_races(s, guild_ids)
    ELSE [s EXCEPT !.pc = "sleep"]

\* Line 253: the loop's iteration is due, one minute after the last one.
LoopIteration ==
    /\ scheduler.pc = "sleep"
    /\ now >= scheduler.next_iteration
    /\ scheduler.runs < MaxRuns
    /\ scheduler' =
          start_race_loop([scheduler EXCEPT !.next_iteration = now + 60], now,
                          get_all_race_configs(guild_configs, db_pool))
    /\ UNCHANGED guild_configs
    /\ SchedFrame

remove_race_channel_keep(configs, pool, guild_id) == configs

\* Lines 96-100: remove_race_channel.
remove_race_channel(configs, pool, guild_id) ==
    IF ~pool THEN configs ELSE Drop(configs, guild_id)

\* Line 294: the first message of the race is sent.
RaceSent(k) ==
    /\ k \in DOMAIN scheduler.coros
    /\ scheduler.coros[k] = "running"
    /\ k \notin scheduler.sent
    /\ scheduler' = [scheduler EXCEPT !.sent = @ \cup {k}]
    /\ UNCHANGED guild_configs
    /\ SchedFrame

\* Lines 296-297: the first message raises discord.Forbidden; the handler
\* is now suspended in remove_race_channel.
RaceForbidden(k) ==
    /\ k \in DOMAIN scheduler.coros
    /\ scheduler.coros[k] = "running"
    /\ k \notin scheduler.sent
    /\ scheduler' = [scheduler EXCEPT !.coros[k] = "removing"]
    /\ UNCHANGED guild_configs
    /\ SchedFrame

\* Lines 297-298: the DELETE of remove_race_channel runs and the race returns.
RaceRevoke(k) ==
    /\ k \in DOMAIN scheduler.coros
    /\ scheduler.coros[k] = "removing"
    /\ guild_configs' = remove_race_channel(guild_configs, db_pool, k[2])
    /\ scheduler' = [scheduler EXCEPT !.coros[k] = "revoked"]
    /\ SchedFrame

\* A race coroutine returns (lines 278, 302, 328, 357).
RaceReturn(k) ==
    /\ k \in DOMAIN scheduler.coros
    /\ scheduler.coros[k] = "running"
    /\ scheduler' = [scheduler EXCEPT !.coros[k] = "finished"]
    /\ UNCHANGED guild_configs
    /\ SchedFrame

\* A race coroutine raises.  asyncio.gather (line 270) hands the first
\* exception to run_global_races at once and leaves the other coroutines
\* running; the exception leaves start_race_loop, and the loop ends or, for
\* an error of the connection, backs off and runs its body again.
RaceRaise(k, error) ==
    /\ k \in DOMAIN scheduler.coros
    /\ scheduler.coros[k] = "running"
    /\ k \in scheduler.sent
    /\ scheduler' =
          [scheduler EXCEPT
              !.coros[k] = "raised",
              !.pc = IF scheduler.pc = "gather" /\ k[1] = scheduler.runs
                     THEN IF error = "connection" THEN "backoff" ELSE "stopped"
                     ELSE @]
    /\ UNCHANGED guild_configs
    /\ SchedFrame

\* Lines 270-271: every coroutine of the run has returned.
GatherDone ==
    /\ scheduler.pc = "gather"
    /\ \A k \in DOMAIN scheduler.coros :
          k[1] = scheduler.runs => scheduler.coros[k] \in {"finished", "revoked"}
    /\ scheduler' = [scheduler EXCEPT !.pc = "sleep", !.logged = @ \cup {scheduler.runs}]
    /\ UNCHANGED guild_configs
    /\ SchedFrame

\* Lines 253-260: after the back-off the loop calls its body again.
LoopRetry ==
    /\ scheduler.pc = "backoff"
    /\ scheduler.runs < MaxRuns
    /\ scheduler' = start_race_loop(scheduler, now,
                                    get_all_race_configs(guild_configs, db_pool))
    /\ UNCHANGED guild_configs
    /\ SchedFrame

\* Line 391: on_ready, called after a reconnect, starts the ended loop again;
\* its first iteration is due at once.
LoopRestart ==
    /\ scheduler.pc = "stopped"
    /\ scheduler' = [scheduler EXCEPT !.pc = "sleep", !.next_iteration = now]
    /\ UNCHANGED guild_configs
    /\ SchedFrame

-----------------------------------------------------------------------------
(* Startup of the store: init_database_pool, lines 42-83, step by step, and *)
(* the store functions as the handlers call them once it has returned.      *)

BootSteps == {"env", "create_pool", "acquire", "execute"}

\* Lines 46-83: one step of init_database_pool.  ok: DATABASE_URL is set
\* (line 47), or the awaited call of the step returns rather than raises.
\* Every exception is caught at line 82, after which the function returns.
init_database_pool(b, ok) ==
    IF ~ok THEN [b EXCEPT !.pc = "failed"]
    ELSE CASE b.pc = "env" -> [b EXCEPT !.pc = "create_pool"]
           [] b.pc = "create_pool" -> [b EXCEPT !.pc = "acquire"]
           [] b.pc = "acquire" -> [b EXCEPT !.pc = "execute", !.statement = 1]
           [] b.pc = "execute" ->
                [b EXCEPT !.tables = @ \cup {StoreTables[b.statement]},
                          !.statement = @ + 1,
                          !.pc = IF b.statement = Len(StoreTables)
                                 THEN "ready" ELSE "execute"]

BootFrame ==
    UNCHANGED <<sessionVars, stats0, handVars, ledgerVars, tasks, invoked,
                verdicts, games, spins, races, reports, scheduler>>

\* Line 53 assigns the global db_pool as soon as create_pool has returned.
InitDatabasePool(ok) ==
    /\ boot.pc \in BootSteps
    /\ boot' = init_database_pool(boot, ok)
    /\ db_pool' = (db_pool \/ (boot.pc = "create_pool" /\ ok))
    /\ UNCHANGED <<user_stats, horse_bets, guild_configs>>
    /\ BootFrame

StoreReads ==
    {"get_balance", "get_total_time", "get_bets_for_guild", "get_all_race_configs"}
StoreWrites ==
    {"update_balance", "record_vc_session", "place_bet", "set_race_channel"}

\* The table the function's statement names (lines 85-179).
TableOf(fn) ==
    IF fn \in {"get_balance", "get_total_time", "update_balance", "record_vc_session"}
    THEN "user_stats"
    ELSE IF fn \in {"get_all_race_configs", "set_race_channel"}
    THEN "guild_configs"
    ELSE "horse_bets"

\* `if not db_pool: return <default>`, else the statement runs and raises
\* when its table does not exist.
StoreOutcome(fn, pool, tables) ==
    IF ~pool THEN "default"
    ELSE IF TableOf(fn) \in tables THEN "query" ELSE "raises"

\* What the read returns.
StoreValue(fn, user_id) ==
    CASE fn = "get_balance" -> get_balance(user_stats, db_pool, user_id)
      [] fn = "get_total_time" -> get_total_time(user_stats, db_pool, user_id)
      [] fn = "get_bets_for_guild" -> get_bets_for_guild(horse_bets, db_pool, "g1")
      [] fn = "get_all_race_configs" -> get_all_race_configs(guild_configs, db_pool)
      [] OTHER -> None

\* A handler calls a store function after on_ready's init_database_pool.
StoreCall(fn, user_id) ==
    /\ boot.pc \in {"ready", "failed"}
    /\ boot.ncalls < MaxCommands
    /\ LET outcome == StoreOutcome(fn, db_pool, boot.tables)
           runs == outcome # "raises"
       IN  /\ boot' = [boot EXCEPT
                  !.ncalls = @ + 1,
                  !.last = [fn |-> fn, outcome |-> outcome,
                            value |-> IF runs THEN StoreValue(fn, user_id) ELSE None]]
           /\ user_stats' =
                 IF runs /\ fn = "update_balance"
                 THEN update_balance(user_stats, db_pool, user_id, 1)
                 ELSE IF runs /\ fn = "record_vc_session"
                 THEN record_vc_session(user_stats, db_pool, user_id, InitSeconds, 1)
                 ELSE user_stats
           /\ horse_bets' =
                 IF runs /\ fn = "place_bet"
                 THEN place_bet(horse_bets, db_pool, user_id, "g1", 1, "Red")
                 ELSE horse_bets
           /\ guild_configs' =
                 IF runs /\ db_pool /\ fn = "set_race_channel"
                 THEN Put(guild_configs, "g1", "race-channel")
                 ELSE guild_configs
    /\ UNCHANGED db_pool
    /\ BootFrame

-----------------------------------------------------------------------------
(* SpecWager: one user's wager commands as interleaved handlers, with the   *)
(* user's voice events and the clock.  The player of a game started here    *)
(* presses no button: the game ends on the deal or when its view times out. *)

WagerAmounts == {-1, 1, 2}
RangeAmounts == {a \in WagerAmounts : a >= 1}
\* one green, one red and odd, one black and even pocket
WagerSpins == {n \in SpinResults : n <= 2}

InitWager ==
    /\ now = 0
    /\ voice = [m \in Members |-> None]
    /\ active_sessions = <<>>
    /\ ready = TRUE
    /\ owed_seconds = [u \in Users |-> 0]
    /\ owed_currency = [u \in Users |-> 0]
    /\ user_stats = [u \in {"u1"} |-> NewRow(InitSeconds, InitBalance)]
    /\ db_pool = TRUE
    /\ stats0 = user_stats
    /\ HandIdle
    /\ LedgerIdle
    /\ tasks = <<>>
    /\ invoked = 0
    /\ verdicts = <<>>
    /\ games = <<>>
    /\ horse_bets = <<>>
    /\ guild_configs = [g \in {"g1"} |-> "race-channel"]
    /\ spins = <<>>
    /\ reports = <<>>
    /\ scheduler = LoopIdle
    /\ boot = Booted(db_pool)
    /\ races = <<>>

TaskIds == 1..MaxCommands

NextWager ==
    \/ Tick(MaxTime)
    \/ \E c \in {None, "general"} : OnVoiceStateUpdate("u1", c)
    \/ \E a \in WagerAmounts : Invoke("coinflip", "u1", "g1", a, "None")
    \/ \E a \in RangeAmounts, b \in {"Red", "Green"} :
          Invoke("roulette", "u1", "g1", a, b)
    \/ \E a \in WagerAmounts :
          invoked = 0 /\ Invoke("blackjack", "u1", "g1", a, "None")
    \/ \E a \in RangeAmounts : Invoke("bet_horse", "u1", "g1", a, "Red")
    \/ \E id \in TaskIds : CoinflipEntry(id)
    \/ \E id \in TaskIds : CoinflipValidate(id)
    \/ \E id \in TaskIds, is_win \in BOOLEAN : CoinflipOutcome(id, is_win)
    \/ \E id \in TaskIds : RouletteEntry(id)
    \/ \E id \in TaskIds : RouletteValidate(id)
    \/ \E id \in TaskIds, n \in WagerSpins : RouletteSpin(id, n)
    \/ \E id \in TaskIds : BlackjackEntry(id)
    \/ \E id \in TaskIds : BlackjackValidate(id)
    \/ \E id \in TaskIds : BlackjackStart(id, WagerDeckSize)
    \/ \E id \in TaskIds : OnTimeout(id)
    \/ \E id \in TaskIds, i \in 1..(MaxClicks + 1) : EndGameFinish(id, i)
    \/ \E id \in TaskIds : BetHorseEntry(id)
    \/ \E id \in TaskIds : BetHorseLockout(id)
    \/ \E id \in TaskIds : BetHorseOldBet(id)
    \/ \E id \in TaskIds : BetHorseValidate(id)
    \/ \E id \in TaskIds : BetHorsePlace(id)

SpecWager == InitWager /\ [][NextWager]_vars

-----------------------------------------------------------------------------
(* SpecBlackjack: one blackjack command and its game, every deal of the     *)
(* model's deck                                                             *)

NextBlackjack ==
    \/ \E a \in WagerAmounts \ {1} :
          invoked = 0 /\ Invoke("blackjack", "u1", "g1", a, "None")
    \/ \E id \in TaskIds : BlackjackEntry(id)
    \/ \E id \in TaskIds : BlackjackValidate(id)
    \/ \E id \in TaskIds : BlackjackStart(id, DeckSize)
    \/ \E id \in TaskIds, u \in Users : Hit(id, u)
    \/ \E id \in TaskIds, u \in Users : Stand(id, u)
    \/ \E id \in TaskIds : OnTimeout(id)
    \/ \E id \in TaskIds, i \in 1..(MaxClicks + 1) : EndGameFinish(id, i)

SpecBlackjack == InitWager /\ [][NextBlackjack]_vars

-----------------------------------------------------------------------------
(* SpecRoulette: roulette commands of one user, every bet and every pocket  *)

NextRoulette ==
    \/ \E a \in RangeAmounts, b \in RouletteBets :
          invoked < MaxSpins /\ Invoke("roulette", "u1", "g1", a, b)
    \/ \E id \in TaskIds : RouletteEntry(id)
    \/ \E id \in TaskIds : RouletteValidate(id)
    \/ \E id \in TaskIds, n \in SpinResults : RouletteSpin(id, n)

SpecRoulette == InitWager /\ [][NextRoulette]_vars

-----------------------------------------------------------------------------
(* SpecTrack: the tick loop of one guild's race, watched until the end of    *)
(* its minute.  Blue and Purple move freely, the other horses keep together. *)

InitTrack ==
    /\ InitWager
    /\ Minute(now) \notin RACE_MINUTES

NextTrack ==
    \/ Minute(now) \notin RACE_MINUTES /\ Tick(60)
    \/ StartRace("g1", "ok")
    \/ \E m \in PackMoves({"Blue", "Purple"}) : RaceTick("g1", m)

SpecTrack ==
    /\ InitTrack /\ [][NextTrack]_vars
    /\ WF_vars(\E m \in PackMoves({"Blue", "Purple"}) : RaceTick("g1", m))

-----------------------------------------------------------------------------
(* SpecRace: two users bet on the race of one guild, the clock passes into  *)
(* the race minute, the race runs and resolves within it.  Every horse      *)
(* moves by 3, or Red by 2 and the others by 3.                             *)

SendOutcomes == {"ok", "forbidden", "error"}
SprintMoves ==
    {m \in [Horses -> {2, 3}] : \A c \in Horses \ {"Red"} : m[c] = 3}

InitRace ==
    /\ now = 0
    /\ voice = [m \in Members |-> None]
    /\ active_sessions = <<>>
    /\ ready = TRUE
    /\ owed_seconds = [u \in Users |-> 0]
    /\ owed_currency = [u \in Users |-> 0]
    /\ user_stats = [u \in Users |-> NewRow(InitSeconds, InitBalance)]
    /\ db_pool = TRUE
    /\ stats0 = user_stats
    /\ HandIdle
    /\ LedgerIdle
    /\ tasks = <<>>
    /\ invoked = 0
    /\ verdicts = <<>>
    /\ games = <<>>
    /\ horse_bets = <<>>
    /\ guild_configs = [g \in {"g1"} |-> "race-channel"]
    /\ spins = <<>>
    /\ reports = <<>>
    /\ scheduler = LoopIdle
    /\ boot = Booted(db_pool)
    /\ races = <<>>

RaceBets ==
    {<<"u1", a, "Red">> : a \in RangeAmounts}
       \cup {<<"u2", a, "Blue">> : a \in RangeAmounts \ {1}}

NextRace ==
    \/ Minute(now) \notin RACE_MINUTES /\ Tick(60)
    \/ \E b \in RaceBets : Invoke("bet_horse", b[1], "g1", b[2], b[3])
    \/ \E id \in TaskIds : BetHorseEntry(id)
    \/ \E id \in TaskIds : BetHorseLockout(id)
    \/ \E id \in TaskIds : BetHorseOldBet(id)
    \/ \E id \in TaskIds : BetHorseValidate(id)
    \/ \E id \in TaskIds : BetHorsePlace(id)
    \/ \E sent \in SendOutcomes : StartRace("g1", sent)
    \/ \E m \in SprintMoves : RaceTick("g1", m)
    \/ RaceGetBets("g1")
    \/ \E u \in Users, a \in RangeAmounts, c \in Horses :
          RacePay("g1", [user_id |-> u, bet_amount |-> a, horse_color |-> c])
    \/ \E sent \in {"ok", "error"} : RaceAnnounce("g1", sent)

SpecRace == InitRace /\ [][NextRace]_vars

-----------------------------------------------------------------------------
(* SpecBoard: a leaderboard command over a table of up to MaxRows rows,     *)
(* with no, one or two open sessions, one of them of a user without a row.  *)

BoardRows == InitRows \cup {NewRow(2 * InitSeconds, 2 * InitBalance)}

\* The first two users have any of the rows, the others the same row.
BoardTables ==
    UNION {{[u \in {BoardOrder[i] : i \in 1..k} |->
                IF BoardIndex(u) <= 2 THEN first[BoardIndex(u)] ELSE rest]
               : first \in [1..2 -> BoardRows], rest \in BoardRows}
           : k \in 0..MaxRows}

BoardSessions ==
    {<<>>, [u \in {"u1"} |-> 0], [u \in {"u1", BoardOrder[MaxRows + 1]} |-> 0]}

InitBoard ==
    /\ now = 0
    /\ active_sessions \in BoardSessions
    /\ voice = [m \in Members |->
                   IF m \in DOMAIN active_sessions THEN "general" ELSE None]
    /\ ready = TRUE
    /\ owed_seconds = [u \in Users |-> 0]
    /\ owed_currency = [u \in Users |-> 0]
    /\ user_stats \in BoardTables
    /\ db_pool = TRUE
    /\ stats0 = user_stats
    /\ HandIdle
    /\ LedgerIdle
    /\ WagersIdle

NextBoard ==
    \/ Tick(MaxTime)
    \/ \E cmd \in LeaderboardCommands :
          invoked < MaxQueries /\ tasks = <<>> /\ InvokeQuery(cmd, None)
    \/ \E id \in TaskIds, ascending \in RowOrders : LeaderboardFetch(id, ascending)
    \/ \E id \in TaskIds, ascending \in RowOrders : LeaderboardReport(id, ascending)

SpecBoard == InitBoard /\ [][NextBoard]_vars

-----------------------------------------------------------------------------
(* SpecQuery: voicetime, balance and the leaderboards, asked about a user   *)
(* whose voice events arrive while the handler is suspended.                *)

InitQuery ==
    /\ now = 0
    /\ voice \in {[m \in Members |-> IF m = "u1" THEN c ELSE None] :
                     c \in Channels \cup {None}}
    /\ active_sessions = <<>>
    /\ ready = FALSE
    /\ owed_seconds = [u \in Users |-> 0]
    /\ owed_currency = [u \in Users |-> 0]
    /\ user_stats \in {<<>>, [u \in {"u1"} |-> NewRow(InitSeconds, InitBalance)]}
    /\ db_pool = TRUE
    /\ stats0 = user_stats
    /\ HandIdle
    /\ LedgerIdle
    /\ WagersIdle

NextQuery ==
    \/ \E d \in TickSteps : Tick(d)
    \/ \E c \in Channels \cup {None} : OnVoiceStateUpdate("u1", c)
    \/ OnReady
    \/ \E cmd \in QueryCommands \cup LeaderboardCommands :
          invoked < MaxQueries /\ InvokeQuery(cmd, "u1")
    \/ \E id \in TaskIds : QueryFetch(id)
    \/ \E id \in TaskIds : QueryReport(id)
    \/ \E id \in TaskIds, ascending \in RowOrders : LeaderboardFetch(id, ascending)
    \/ \E id \in TaskIds, ascending \in RowOrders : LeaderboardReport(id, ascending)

SpecQuery == InitQuery /\ [][NextQuery]_vars

-----------------------------------------------------------------------------
(* SpecTimeout: two users each start a blackjack game from a deck of        *)
(* WagerDeckSize cards; a player stands or lets the view time out.          *)

\* The cards start_game deals: two to the player, two to the dealer.
DealSize == 4

\* The first game is dealt from WagerDeckSize cards at any stake, the second
\* from the cards of one deal at the stake 1.
NextTimeout ==
    \/ \E a \in RangeAmounts :
          /\ invoked < Cardinality(Users)
          /\ invoked > 0 => a = 1
          /\ Invoke("blackjack", IF invoked = 0 THEN "u1" ELSE "u2", "g1", a, "None")
    \/ \E id \in TaskIds : BlackjackEntry(id)
    \/ \E id \in TaskIds : BlackjackValidate(id)
    \/ \E id \in TaskIds :
          BlackjackStart(id, IF id = 1 THEN WagerDeckSize ELSE DealSize)
    \/ \E id \in TaskIds : id \in DOMAIN games /\ Stand(id, games[id].player)
    \/ \E id \in TaskIds : OnTimeout(id)
    \/ \E id \in TaskIds, i \in 1..(MaxClicks + 1) : EndGameFinish(id, i)

SpecTimeout == InitRace /\ [][NextTimeout]_vars

-----------------------------------------------------------------------------
(* SpecSched: the scheduler over two guilds whose configurations are set    *)
(* and removed while the clock passes from minute 59 into the race minute.  *)

InitSched ==
    /\ now = 0
    /\ voice = [m \in Members |-> None]
    /\ active_sessions = <<>>
    /\ ready = TRUE
    /\ owed_seconds = [u \in Users |-> 0]
    /\ owed_currency = [u \in Users |-> 0]
    /\ user_stats = <<>>
    /\ db_pool = TRUE
    /\ stats0 = user_stats
    /\ HandIdle
    /\ LedgerIdle
    /\ tasks = <<>>
    /\ invoked = 0
    /\ verdicts = <<>>
    /\ games = <<>>
    /\ horse_bets = <<>>
    /\ guild_configs \in {[g \in G |-> "race-channel"] : G \in SUBSET Guilds}
    /\ spins = <<>>
    /\ reports = <<>>
    /\ scheduler = LoopIdle
    /\ boot = Booted(db_pool)
    /\ races = <<>>

NextSched ==
    \/ Tick(60)
    \/ \E g \in Guilds : SetRaceChannel(g)
    \/ \E g \in Guilds : RemoveRaceChannel(g)
    \/ LoopIteration
    \/ \E r \in 1..MaxRuns, g \in Guilds : RaceSent(<<r, g>>)
    \/ \E r \in 1..MaxRuns, g \in Guilds : RaceForbidden(<<r, g>>)
    \/ \E r \in 1..MaxRuns, g \in Guilds : RaceRevoke(<<r, g>>)
    \/ \E r \in 1..MaxRuns, g \in Guilds : RaceReturn(<<r, g>>)
    \/ \E r \in 1..MaxRuns, g \in Guilds, e \in RaceErrors : RaceRaise(<<r, g>>, e)
    \/ GatherDone
    \/ LoopRetry
    \/ LoopRestart

SpecSched == InitSched /\ [][NextSched]_vars

-----------------------------------------------------------------------------
(* SpecStartup: init_database_pool against a fresh database or one that     *)
(* holds the tables and rows of an earlier run; every step may fail.        *)

InitStartup ==
    /\ now = 0
    /\ voice = [m \in Members |-> None]
    /\ active_sessions = <<>>
    /\ ready = FALSE
    /\ owed_seconds = [u \in Users |-> 0]
    /\ owed_currency = [u \in Users |-> 0]
    /\ db_pool = FALSE
    /\ \E earlier \in BOOLEAN :
          /\ boot = [Booted(FALSE) EXCEPT
                        !.pc = "env", !.statement = 1,
                        !.tables = IF earlier THEN @ ELSE {}]
          /\ user_stats = IF earlier
                          THEN [u \in {"u1"} |-> NewRow(InitSeconds, InitBalance)]
                          ELSE <<>>
          /\ guild_configs = IF earlier
                             THEN [g \in {"g1"} |-> "race-channel"]
                             ELSE <<>>
    /\ stats0 = user_stats
    /\ HandIdle
    /\ LedgerIdle
    /\ tasks = <<>>
    /\ invoked = 0
    /\ verdicts = <<>>
    /\ games = <<>>
    /\ horse_bets = <<>>
    /\ spins = <<>>
    /\ reports = <<>>
    /\ scheduler = LoopIdle
    /\ races = <<>>

NextStartup ==
    \/ \E ok \in BOOLEAN : InitDatabasePool(ok)
    \/ \E fn \in StoreReads \cup StoreWrites, u \in Users : StoreCall(fn, u)

SpecStartup == InitStartup /\ [][NextStartup]_vars

-----------------------------------------------------------------------------
(* Claims about the session tracker and the queries, checked under Spec *)

Seconds0(u) == get_total_time(stats0, db_pool, u)
Balance0(u) == get_balance(stats0, db_pool, u)

\* C1: every session a leave or switch-out removes from active_sessions adds
\* its floor(now - join_time) seconds (when > 0) to the user's total_seconds,
\* exactly once: the persisted seconds of each user are the startup value plus
\* the seconds of all the sessions removed so far.
C1_SettledExactlyOnce ==
    \A u \in Users :
        get_total_time(user_stats, db_pool, u) = Seconds0(u) + owed_seconds[u]

\* C2: every settlement adds floor(elapsed / 60) to the balance together with
\* the seconds (59 s -> 0, 119 s -> 1, 120 s -> 2): with no wager made, the
\* persisted balance of each user is the startup value plus the awards of all
\* the sessions removed so far.
C2_AwardCommitted ==
    \A u \in Users :
        get_balance(user_stats, db_pool, u) = Balance0(u) + owed_currency[u]

\* C3: the commands that read a balance compute the same effective balance
\* from the same ledger and session state: persisted balance plus
\* floor((now - start) / 60) of the open session, if any.
C3_SameEffectiveBalance ==
    \A u \in Users :
        /\ balance_total(u) = Value(EffectiveBalance(u))
        /\ coinflip_current_balance(u) = Value(EffectiveBalance(u))
        /\ leaderboard_currency_entry(u) = Value(EffectiveBalance(u))

\* C7: when no voice-state handler is running, active_sessions holds an entry
\* only for a user, never a bot, and only for one who is in a voice channel
\* (one entry per user: active_sessions is a function of the user id).
C7_EntryOnlyInVoice ==
    \A m \in DOMAIN active_sessions : m \in Users /\ voice[m] # None

\* C7 witness: a user's session was removed by a leave and the user is out of
\* voice with no entry, while another user holds an entry.
C7_Witness ==
    \E u \in Users, v \in Users :
        /\ owed_seconds[u] > 0 /\ voice[u] = None /\ u \notin DOMAIN active_sessions
        /\ v # u /\ v \in DOMAIN active_sessions /\ now > active_sessions[v]

\* C8: the total a voicetime query reports for a user never decreases from
\* one moment to a later one, in particular not across a leave or a channel
\* switch (the steps of the startup scan, which resets join_time, set aside).
C8_VoicetimeMonotonic ==
    [][(ready /\ ready') =>
          \A u \in Users : voicetime_total(u)' >= voicetime_total(u)]_vars

-----------------------------------------------------------------------------
(* Claim about the ledger store, checked under SpecLedger *)

\* C6: no update is lost: once the store has executed every statement sent,
\* each user's persisted balance is the initial balance plus the sum of the
\* deltas sent for that user, and total_seconds is the initial value plus the
\* sum of the session seconds sent (with the store connected).
C6_NoLostUpdate ==
    (db_pool /\ inflight = <<>>) =>
        \A u \in Users :
            /\ get_balance(user_stats, db_pool, u)
                  = Balance0(u) + issued[u].balance
            /\ get_total_time(user_stats, db_pool, u)
                  = Seconds0(u) + issued[u].total_seconds

\* C6 witness: three statements for one user, among them a session commit and
\* a debit, were sent together and have all been executed.
C6_Witness ==
    /\ db_pool /\ inflight = <<>> /\ calls = 3
    /\ \E u \in Users :
          /\ issued[u].total_seconds = 120
          /\ issued[u].balance = 2
          /\ u \in DOMAIN stats0
          /\ user_stats[u].balance = stats0[u].balance + 2

-----------------------------------------------------------------------------
(* Claim about calculate_hand_value, checked under SpecHand *)

RankSeq(h) == [i \in DOMAIN h |-> h[i].rank]

\* The totals a hand can be counted as: every Ace as 1 or 11.
LowTotal(h) == RawValue(h) - 10 * AceCount(h)
Totals(h) == {LowTotal(h) + 10 * k : k \in 0..AceCount(h)}
BestTotal(h) ==
    LET fit == {t \in Totals(h) : t <= 21}
    IN  IF fit = {} THEN LowTotal(h)
        ELSE CHOOSE t \in fit : \A x \in fit : x <= t

\* C9: calculate_hand_value is the largest total <= 21 obtainable by counting
\* each Ace as 1 or 11, or the all-Aces-as-1 total if none is <= 21;
\* [A,A,9] = 21, [K,K] = 20, [A,K,A] = 12.
C9_HandValue ==
    /\ hand_value = BestTotal(hand)
    /\ RankSeq(hand) = <<"A", "A", "9">> => hand_value = 21
    /\ RankSeq(hand) = <<"K", "K">> => hand_value = 20
    /\ RankSeq(hand) = <<"A", "K", "A">> => hand_value = 12

\* C9 witness: the hand [A, K, A] has been evaluated, both Aces demoted.
C9_Witness ==
    RankSeq(hand) = <<"A", "K", "A">> /\ hand_value = 12

-----------------------------------------------------------------------------
(* Claims about the wager commands, checked under SpecWager *)

WagerCommands == {"blackjack", "coinflip", "roulette"}

\* The handler of task id takes a step.
TaskStepped(id) ==
    /\ id \in DOMAIN tasks
    /\ (id \notin DOMAIN tasks' \/ tasks'[id] # tasks[id])

\* The wager of task id is about to be decided and is one the contract
\* rejects: not positive, or above the user's effective balance.
BadWager(id) ==
    /\ tasks[id].cmd \in WagerCommands
    /\ \/ tasks[id].pc = "entry" /\ tasks[id].amount <= 0
       \/ /\ tasks[id].pc = "validate"
          /\ tasks[id].amount > EffectiveBalance(tasks[id].user_id)

\* C4: for blackjack, coinflip and roulette, the step that decides a wager
\* with amount <= 0, or with amount above the user's effective balance, ends
\* the handler and leaves the ledger and the games as they were: no debit, no
\* credit, no game started.
C4_RejectedWithoutMutation ==
    [][\A id \in TaskIds :
          (TaskStepped(id) /\ BadWager(id)) =>
              /\ user_stats' = user_stats
              /\ games' = games
              /\ id \notin DOMAIN tasks']_vars

\* C5: through voice events, settlements and wagers, every user's persisted
\* balance is >= 0.
C5_BalanceNonNegative ==
    \A u \in DOMAIN user_stats : user_stats[u].balance >= 0

-----------------------------------------------------------------------------
(* Claim about the deal of a blackjack game, checked under SpecBlackjack *)

\* The game was dealt a two-card 21.
DealtNatural(g) == calculate_hand_value(SubSeq(g.player_hand, 1, 2)) = 21

\* C10: a game whose first two player cards total 21 is over with the single
\* result win whatever the dealer holds: the dealer keeps two cards, the
\* player keeps two cards, its buttons are never active and none was
\* pressed, and the credit is 2 x bet, once: on its way to the store, or
\* executed and the ledger at the starting balance - bet + 2 x bet.
C10_NaturalImmediateWin ==
    \A id \in DOMAIN games :
        LET g == games[id]
        IN  DealtNatural(g) =>
               /\ g.game_over
               /\ g.results = <<"win">>
               /\ Len(g.dealer_hand) = 2
               /\ Len(g.player_hand) = 2
               /\ g.view # "active"
               /\ g.clicks = 0
               /\ \/ /\ g.pending = <<2 * g.bet_amount>>
                     /\ g.credited = 0
                     /\ g.view = "unsent"
                     /\ get_balance(user_stats, db_pool, g.player)
                           = Balance0(g.player) - g.bet_amount
                  \/ /\ g.pending = <<>>
                     /\ g.credited = 2 * g.bet_amount
                     /\ g.view = "stopped"
                     /\ get_balance(user_stats, db_pool, g.player)
                           = Balance0(g.player) + g.bet_amount

\* C10 witness: a two-card 21 against a dealer who also holds 21 has been
\* settled, 2 x bet credited.
C10_Witness ==
    \E id \in DOMAIN games :
        /\ DealtNatural(games[id])
        /\ calculate_hand_value(games[id].dealer_hand) = 21
        /\ games[id].bet_amount = 2
        /\ games[id].credited = 4
        /\ games[id].pending = <<>>
        /\ user_stats[games[id].player].balance = InitBalance + 2

\* The step is a dealer's turn of game id: a result is decided while the view
\* stays active (a timeout stops it) and the player has not just gone bust.
DealerTurnStep(id) ==
    /\ id \in DOMAIN games
    /\ games[id].view = "active"
    /\ games'[id].view = "active"
    /\ Len(games'[id].results) = Len(games[id].results) + 1
    /\ ~ /\ Len(games'[id].player_hand) > Len(games[id].player_hand)
         /\ calculate_hand_value(games'[id].player_hand) > 21

\* The result the contract gives for the two totals.
ContractResult(dealer_total, player_total) ==
    CASE dealer_total > 21 -> "win"
      [] dealer_total <= 21 /\ dealer_total > player_total -> "lose"
      [] dealer_total <= 21 /\ player_total > dealer_total -> "win"
      [] OTHER -> "push"

\* C11: after the dealer's turn the result is the ordered comparison: dealer
\* total > 21 -> win; else dealer > player -> lose; else player > dealer ->
\* win; else push.  A dealer total in 17..21 above the player's is a loss,
\* equal non-bust totals are a push.
C11_DealerComparison ==
    [][\A id \in TaskIds :
          DealerTurnStep(id) =>
              LET d == calculate_hand_value(games'[id].dealer_hand)
                  p == calculate_hand_value(games'[id].player_hand)
                  r == games'[id].results[Len(games'[id].results)]
              IN  /\ d >= 17
                  /\ r = ContractResult(d, p)
                  /\ (d \in 17..21 /\ p < d) => r = "lose"
                  /\ (d <= 21 /\ p = d) => r = "push"]_vars

\* C11 witness: the dealer drew to a total equal to the player's and the
\* game was decided a push.
C11_Witness ==
    \E id \in DOMAIN games :
        /\ games[id].results = <<"push">>
        /\ Len(games[id].dealer_hand) >= 3
        /\ calculate_hand_value(games[id].dealer_hand)
              = calculate_hand_value(games[id].player_hand)

\* The game is completed: no end_game call is still suspended and its view
\* is stopped.
Completed(g) == g.results # <<>> /\ g.pending = <<>> /\ g.view = "stopped"

\* The net change the contract gives for a result.
ContractNet(result, bet_amount) ==
    CASE result = "win" -> bet_amount
      [] result = "push" -> 0
      [] OTHER -> 0 - bet_amount

\* C12: for every completed game the player's persisted balance differs from
\* the balance just before the bet by +bet on win, 0 on push, -bet on lose
\* (for a result the game was given).
C12_NetChange ==
    \A id \in DOMAIN games :
        Completed(games[id]) =>
            \E i \in DOMAIN games[id].results :
                get_balance(user_stats, db_pool, games[id].player)
                   = Balance0(games[id].player)
                     + ContractNet(games[id].results[i], games[id].bet_amount)

\* The end_game calls of the game that carry a credit.
CreditCalls(g) == {i \in DOMAIN g.results : g.results[i] \in {"win", "push"}}

\* C13: a game is settled at most once: end_game applies at most one payout
\* credit, and a hit, stand or timeout arriving once the game is over changes
\* neither the hands nor the deck and decides nothing further.
C13_SettledAtMostOnce ==
    [][\A id \in DOMAIN games :
          /\ Cardinality(CreditCalls(games'[id])) <= 1
          /\ games[id].game_over =>
                /\ games'[id].player_hand = games[id].player_hand
                /\ games'[id].dealer_hand = games[id].dealer_hand
                /\ games'[id].deck = games[id].deck
                /\ games'[id].results = games[id].results]_vars

\* The view of game id handles a button interaction of a user who did not
\* start the game.
ForeignClick(id) ==
    /\ games'[id].clicks = games[id].clicks + 1
    /\ games'[id].last_user # games[id].player

\* C14: a hit or stand interaction of any user other than the one who
\* started the game leaves the game as it was: deck, player hand, dealer
\* hand, game_over (and the results and pending credits), and the ledger.
C14_ForeignClickNoEffect ==
    [][\A id \in DOMAIN games :
          ForeignClick(id) =>
              /\ games'[id].deck = games[id].deck
              /\ games'[id].player_hand = games[id].player_hand
              /\ games'[id].dealer_hand = games[id].dealer_hand
              /\ games'[id].game_over = games[id].game_over
              /\ games'[id].results = games[id].results
              /\ games'[id].pending = games[id].pending
              /\ games'[id].credited = games[id].credited
              /\ user_stats' = user_stats]_vars

\* C14 witness: another user pressed a button of a running game whose player
\* had already drawn a card; the game is still running with that hand.
C14_Witness ==
    \E id \in DOMAIN games :
        /\ games[id].last_user \in Users \ {games[id].player}
        /\ games[id].clicks = 2
        /\ Len(games[id].player_hand) = 3
        /\ ~games[id].game_over
        /\ games[id].view = "active"

-----------------------------------------------------------------------------
(* Claim about roulette, checked under SpecRoulette *)

\* The credit the contract gives a bet of amount on bet for pocket n.
ContractCredit(bet, n, amount) ==
    CASE bet = "Red" /\ n \in REDS -> 2 * amount
      [] bet = "Black" /\ n \in BLACKS -> 2 * amount
      [] bet = "Even" /\ n # 0 /\ n % 2 = 0 -> 2 * amount
      [] bet = "Odd" /\ n % 2 = 1 -> 2 * amount
      [] bet = "Green" /\ n = 0 -> 36 * amount
      [] OTHER -> 0

RECURSIVE SpinNet(_)
SpinNet(ids) ==
    IF ids = {} THEN 0
    ELSE LET i == CHOOSE x \in ids : TRUE
         IN  spins[i].credited - spins[i].amount + SpinNet(ids \ {i})

\* C15: the spin is in 0..36; REDS and BLACKS are disjoint, 18 numbers each,
\* and cover 1..36; 0 is green without parity.  Red/Black on the colour and
\* Even/Odd on the parity credit 2 x amount, Green on 0 credits 36 x amount,
\* anything else nothing: the ledger moves by +amount, +35 x amount or
\* -amount per spin.
C15_RoulettePayout ==
    /\ REDS \cap BLACKS = {}
    /\ Cardinality(REDS) = 18 /\ Cardinality(BLACKS) = 18
    /\ REDS \cup BLACKS = 1..36
    /\ SpinColor(0) = "Green" /\ SpinParity(0) = "None"
    /\ \A id \in DOMAIN spins :
          /\ spins[id].spin_result \in 0..36
          /\ spins[id].credited
                = ContractCredit(spins[id].bet, spins[id].spin_result, spins[id].amount)
          /\ spins[id].credited - spins[id].amount
                \in {spins[id].amount, 35 * spins[id].amount, 0 - spins[id].amount}
    /\ tasks = <<>> =>
          get_balance(user_stats, db_pool, "u1") = Balance0("u1") + SpinNet(DOMAIN spins)

\* C15 witness: a bet of 2 on Green met pocket 0 and 72 were credited.
C15_Witness ==
    /\ tasks = <<>>
    /\ \E i \in DOMAIN spins :
          /\ spins[i].bet = "Green" /\ spins[i].spin_result = 0
          /\ spins[i].amount = 2 /\ spins[i].credited = 72
    /\ user_stats["u1"].balance = InitBalance - 2 + 72

-----------------------------------------------------------------------------
(* Claims about the race's tick loop, checked under SpecTrack *)

C17_WinnerFirstPastPost ==
    /\ HORSE_COLORS = <<"Red", "Blue", "Green", "Yellow", "Purple">>
    /\ \A g \in DOMAIN races :
          LET r == races[g]
          IN  /\ r.winner = None =>
                    \A c \in Horses : r.horse_positions[c] < RACE_TRACK_LENGTH
              /\ r.winner # None =>
                    /\ r.winner \in Horses
                    /\ r.horse_positions[r.winner] >= RACE_TRACK_LENGTH
                    /\ \A c \in Horses \ {r.winner} :
                          r.horse_positions[c] < RACE_TRACK_LENGTH

\* C17 witness: Blue won a race in whose last tick Purple, 3 short of the
\* end like Blue, did not get to move.
C17_Witness ==
    /\ "g1" \in DOMAIN races
    /\ races["g1"].winner = "Blue"
    /\ races["g1"].horse_positions["Blue"] = RACE_TRACK_LENGTH
    /\ races["g1"].horse_positions["Purple"] = RACE_TRACK_LENGTH - 3
    /\ races["g1"].horse_positions["Red"] = RACE_TRACK_LENGTH - 1

-----------------------------------------------------------------------------
(* Claims about the resolution of a race, checked under SpecRace *)

\* The race has resolved the bets it read.
Resolved(r) ==
    /\ r.pc \in {"done", "failed"}
    /\ r.bets # {}

C19_BetsClearedOnEveryPath ==
    \A g \in DOMAIN races :
        Resolved(races[g]) =>
            \A b \in races[g].bets :
                b \notin get_bets_for_guild(horse_bets, db_pool, g)

\* The race of the guild has begun and has not yet cleared its bets.
RaceUnderWay(g) ==
    /\ g \in DOMAIN races
    /\ races[g].pc \in {"loop", "final", "pay"}

\* C20: bet_horse rejects, with no ledger or bet-table change, every request
\* whose clock minute is in {0, 1, 2, 30, 31, 32}; and from the start of a
\* guild's race until its bets are cleared no bet row of that guild is
\* inserted or changed.
C20_NoBetDuringRace ==
    [][/\ \A id \in TaskIds :
            (/\ TaskStepped(id)
             /\ tasks[id].cmd = "bet_horse"
             /\ tasks[id].pc = "lockout"
             /\ Minute(now) \in {0, 1, 2, 30, 31, 32}) =>
                /\ user_stats' = user_stats
                /\ horse_bets' = horse_bets
                /\ id \notin DOMAIN tasks'
       /\ \A g \in DOMAIN guild_configs :
            (RaceUnderWay(g) /\ races'[g].pc # "done") =>
                get_bets_for_guild(horse_bets', db_pool, g)
                   = get_bets_for_guild(horse_bets, db_pool, g)]_vars

-----------------------------------------------------------------------------
(* Claim about changing a horse bet, checked under SpecRace *)

\* A bet_horse handler of the user has debited and not yet stored its row.
BetInTransit(u) ==
    \E id \in DOMAIN tasks :
        /\ tasks[id].cmd = "bet_horse"
        /\ tasks[id].user_id = u
        /\ tasks[id].pc = "place"

\* C21: while a bet is open (no race has begun, no handler of the user is
\* between its debit and its store), the net amount debited from the user
\* equals the bet_amount currently stored, for any interleaving of the
\* user's bet_horse calls.
C21_DebitEqualsStake ==
    \A u \in Users :
        (races = <<>> /\ ~BetInTransit(u)) =>
            Balance0(u) - get_balance(user_stats, db_pool, u)
               = OldBetAmount(horse_bets, db_pool, u, "g1")

-----------------------------------------------------------------------------
(* Claim about the leaderboards, checked under SpecBoard *)

\* The persisted value of a user and the live contribution of an open
\* session, as the leaderboards define them.
Persisted(cmd, u) ==
    IF cmd = "leaderboard_time"
    THEN get_total_time(user_stats, db_pool, u)
    ELSE get_balance(user_stats, db_pool, u)

Live(cmd, u, t) ==
    IF u \notin DOMAIN active_sessions THEN 0
    ELSE IF cmd = "leaderboard_time" THEN t - active_sessions[u]
    ELSE (t - active_sessions[u]) \div 60

Aggregated(cmd, u, t) == Persisted(cmd, u) + Live(cmd, u, t)

Place(order, u) == CHOOSE i \in DOMAIN order : order[i] = u

\* u stands before v on the board: larger value, or the same value and
\* earlier in the original order.
Outranks(r, u, v) ==
    \/ Aggregated(r.cmd, u, r.now) > Aggregated(r.cmd, v, r.now)
    \/ /\ Aggregated(r.cmd, u, r.now) = Aggregated(r.cmd, v, r.now)
       /\ Place(r.original, u) < Place(r.original, v)

\* C22: a leaderboard shows, for the users with a ledger row or an open
\* session, the persisted value plus the live contribution of the open
\* session, in descending order of that value with equal values in their
\* original order, cut to the first 10 entries.
C22_Leaderboard ==
    \A id \in DOMAIN reports :
        LET r == reports[id]
            entitled == DOMAIN user_stats \cup DOMAIN active_sessions
            listed == {r.shown[i].user_id : i \in DOMAIN r.shown}
        IN  /\ Len(r.shown) = IF Cardinality(entitled) < 10
                              THEN Cardinality(entitled) ELSE 10
            /\ listed \subseteq entitled
            /\ Cardinality(listed) = Len(r.shown)
            /\ \A i \in DOMAIN r.shown :
                  r.shown[i].value = Aggregated(r.cmd, r.shown[i].user_id, r.now)
            /\ \A i, j \in DOMAIN r.shown :
                  i < j => Outranks(r, r.shown[i].user_id, r.shown[j].user_id)
            /\ \A u \in listed, v \in entitled \ listed : Outranks(r, u, v)

\* C22 witness: a currency leaderboard over more than ten users was cut to
\* ten; the user with a session shows the persisted 2 plus 3 pending, the
\* user without a row shows the 3 pending alone, and two equal values stand
\* next to each other.
C22_Witness ==
    \E id \in DOMAIN reports :
        LET r == reports[id]
        IN  /\ r.cmd = "leaderboard_currency"
            /\ Cardinality(DOMAIN user_stats \cup DOMAIN active_sessions) > 10
            /\ Len(r.shown) = 10
            /\ r.shown[1] = Item("u1", InitBalance + 3)
            /\ get_balance(user_stats, db_pool, "u1") = InitBalance
            /\ \E i \in DOMAIN r.shown :
                  r.shown[i] = Item(BoardOrder[MaxRows + 1], 3)
            /\ \E i \in 1..9 : r.shown[i].value = r.shown[i + 1].value

-----------------------------------------------------------------------------
(* Claim about the check and the debit of a wager, checked under SpecWager *)

\* The handler of task id accepts its wager in this step.
Accepts(id) ==
    /\ id \in DOMAIN tasks
    /\ id \notin DOMAIN verdicts
    /\ id \in DOMAIN verdicts'
    /\ verdicts'[id] = "accepted"

\* C23: for any interleaving of a user's wager commands, a stake is accepted
\* and debited only while the user's effective balance covers it, so the
\* stakes accepted never exceed the balance the user had.
C23_DebitCovered ==
    [][\A id \in TaskIds :
          Accepts(id) =>
              get_balance(user_stats, db_pool, tasks[id].user_id)
                 - get_balance(user_stats', db_pool, tasks[id].user_id)
                 <= EffectiveBalance(tasks[id].user_id)]_vars

-----------------------------------------------------------------------------
(* Claim about queries and settlements, checked under SpecQuery *)

\* The seconds of the user's open session, while the user is in a channel.
OpenSeconds(u) ==
    IF u \in DOMAIN active_sessions /\ voice[u] # None
    THEN now - active_sessions[u]
    ELSE 0

\* The time and the currency the user has accrued: what the table held at
\* startup, the sessions closed since, and the open session.
AccruedSeconds(u) == Seconds0(u) + owed_seconds[u] + OpenSeconds(u)
AccruedCurrency(u) == Balance0(u) + owed_currency[u] + OpenSeconds(u) \div 60

Accrued(cmd, u) ==
    IF cmd \in {"voicetime", "leaderboard_time"}
    THEN AccruedSeconds(u)
    ELSE AccruedCurrency(u)

\* The query of task id shows its result in this step.
Reports(id) == id \notin DOMAIN reports /\ id \in DOMAIN reports'

\* C24: for any interleaving of a balance, voicetime or leaderboard query
\* with the leave and switch settlements of the user, the value the query
\* shows does not exceed the time (or currency) the user has accrued: no
\* session is counted both in the persisted value and as live.
C24_NoDoubleCount ==
    [][\A id \in TaskIds :
          Reports(id) =>
              LET r == reports'[id]
              IN  IF r.cmd \in QueryCommands
                  THEN r.shown <= Accrued(r.cmd, r.user_id)
                  ELSE \A i \in DOMAIN r.shown :
                          r.shown[i].value <= Accrued(r.cmd, r.shown[i].user_id)]_vars

\* C24 witness: the user's session was closed by a leave and a voicetime
\* query, answered after it, showed the persisted seconds without a live part.
C24_Witness ==
    \E id \in DOMAIN reports :
        /\ reports[id].cmd = "voicetime"
        /\ reports[id].shown = InitSeconds
        /\ owed_seconds[reports[id].user_id] > 0
        /\ reports[id].now > 0
        /\ voice[reports[id].user_id] = None

-----------------------------------------------------------------------------
(* Claims about channel switches and empty sessions, checked under Spec *)

\* The step is the handling of a channel switch of user m.
Switches(m) ==
    /\ voice[m] # None
    /\ voice'[m] # None
    /\ voice'[m] # voice[m]

\* C25: a channel switch is handled as leave-then-join at one instant t: the
\* open session is settled up to t (its whole seconds are added to the
\* user's total_seconds) and when the handler completes the user has a
\* session that starts at t.
C25_SwitchLeaveThenJoin ==
    [][\A m \in Users :
          Switches(m) =>
              /\ m \in DOMAIN active_sessions'
              /\ active_sessions'[m] = now
              /\ (m \in DOMAIN active_sessions /\ now - active_sessions[m] > 0) =>
                    get_total_time(user_stats', db_pool, m)
                       = get_total_time(user_stats, db_pool, m)
                            + (now - active_sessions[m])]_vars

\* The step ends the open session of user m: m leaves its channel or moves
\* to another one.
SessionEnds(m) ==
    /\ m \in DOMAIN active_sessions
    /\ voice[m] # None
    /\ voice'[m] # voice[m]

\* C26: when a session ends with elapsed = now - start <= 0 nothing is
\* committed (no row created, total_seconds and balance untouched) and the
\* session entry is removed; a user who left has no entry.  The same holds
\* of the leave branch for an event time at the session's start or a second
\* before it.
C26_EmptySessionNotCommitted ==
    [][\A m \in Users :
          /\ (SessionEnds(m) /\ now - active_sessions[m] <= 0) =>
                /\ user_stats' = user_stats
                /\ voice'[m] = None => m \notin DOMAIN active_sessions'
          /\ \A t \in {active_sessions[u] : u \in DOMAIN active_sessions \cap {m}},
                d \in {0, 1} :
                LET left == LeaveBranch(active_sessions, user_stats, db_pool,
                                        m, "general", None, t - d)
                IN  /\ left.stats = user_stats
                    /\ m \notin DOMAIN left.sessions]_vars

\* C26 witness: at the instant of the startup scan the user, found in a
\* channel, moved to another one: the session of 0 seconds is gone and the
\* table is as it was at startup.
C26_Witness ==
    /\ ready
    /\ now = 0
    /\ voice["u1"] # None
    /\ "u1" \notin DOMAIN active_sessions
    /\ "u1" \notin DOMAIN user_stats
    /\ user_stats = stats0
    /\ owed_seconds["u1"] = 0

-----------------------------------------------------------------------------
(* Claims about hit, the dealer's draw and the timeout, checked under       *)
(* SpecBlackjack                                                            *)

\* The step is a hit of the player of game id, taken in the player's turn.
OwnerHit(id) ==
    /\ ~games[id].game_over
    /\ games[id].view = "active"
    /\ games'[id].clicks = games[id].clicks + 1
    /\ games'[id].last_user = games[id].player
    /\ games'[id].last_button = "hit"

\* hand is prefix followed by further cards.
Extends(hand_, prefix) ==
    /\ Len(hand_) >= Len(prefix)
    /\ SubSeq(hand_, 1, Len(prefix)) = prefix

\* C27: a hit of the owner in the player's turn moves exactly one card from
\* the deck to the player's hand; a total above 21 settles the game as lose
\* with no credit; a total of 21 runs the dealer's turn at once; otherwise
\* the game stays in the player's turn with the dealer's hand unchanged.
C27_Hit ==
    [][\A id \in DOMAIN games :
          OwnerHit(id) =>
              LET g == games[id]
                  h == games'[id]
                  total == BestTotal(h.player_hand)
              IN  /\ \E c \in g.deck :
                        /\ h.player_hand = Append(g.player_hand, c)
                        /\ c \notin h.deck
                        /\ total # 21 => h.deck = g.deck \ {c}
                  /\ total > 21 =>
                        /\ h.game_over
                        /\ h.results = Append(g.results, "lose")
                        /\ h.pending = Append(g.pending, 0)
                        /\ h.dealer_hand = g.dealer_hand
                  /\ total = 21 =>
                        /\ h.game_over
                        /\ Len(h.results) = Len(g.results) + 1
                        /\ Extends(h.dealer_hand, g.dealer_hand)
                        /\ BestTotal(h.dealer_hand) >= 17
                        /\ h.results[Len(h.results)]
                              = ContractResult(BestTotal(h.dealer_hand), 21)
                  /\ total < 21 =>
                        /\ ~h.game_over
                        /\ h.view = "active"
                        /\ h.dealer_hand = g.dealer_hand
                        /\ h.results = g.results
                        /\ h.pending = g.pending
                  /\ user_stats' = user_stats]_vars

\* C27 witness: the player drew a third card to a total of 21 and the
\* dealer's turn ran: the dealer drew to 17 or more and a result was decided.
C27_Witness ==
    \E id \in DOMAIN games :
        /\ games[id].last_button = "hit"
        /\ games[id].last_user = games[id].player
        /\ games[id].clicks = 1
        /\ Len(games[id].player_hand) = 3
        /\ calculate_hand_value(games[id].player_hand) = 21
        /\ Len(games[id].dealer_hand) = 3
        /\ Len(games[id].results) = 1
        /\ games[id].game_over

\* C28: in the dealer's turn the dealer draws exactly while the dealer's
\* total is below 17 and stands on 17 or more, a soft 17 included: the cards
\* are added to the dealer's hand from the deck, the total compared is >= 17,
\* and the total before every card drawn was < 17.
C28_DealerDraw ==
    [][\A id \in DOMAIN games :
          DealerTurnStep(id) =>
              LET before == games[id].dealer_hand
                  after == games'[id].dealer_hand
              IN  /\ Extends(after, before)
                  /\ BestTotal(after) >= 17
                  /\ \A n \in Len(before)..(Len(after) - 1) :
                        /\ BestTotal(SubSeq(after, 1, n)) < 17
                        /\ after[n + 1] \in games[id].deck
                        /\ after[n + 1] \notin games'[id].deck]_vars

\* C28 witness: the dealer held two Aces (12), drew the 5 to a soft 17 and
\* stood on it with cards left in the deck.
C28_Witness ==
    \E id \in DOMAIN games :
        /\ RankSeq(games[id].dealer_hand) = <<"A", "A", "5">>
        /\ calculate_hand_value(games[id].dealer_hand) = 17
        /\ games[id].last_button = "stand"
        /\ games[id].clicks = 1
        /\ Len(games[id].results) = 1
        /\ games[id].deck # {}

\* The step is the timeout of the view of game id.
TimeoutStep(id) ==
    /\ games[id].view = "active"
    /\ games'[id].view = "stopped"
    /\ Len(games'[id].pending) >= Len(games[id].pending)

\* The game ended by its timeout alone and its settlement is complete.
Forfeited(g) ==
    /\ g.results = <<"lose">>
    /\ g.clicks = 0
    /\ g.view = "stopped"
    /\ g.pending = <<>>

\* C29: a timeout that fires in the player's turn settles the game as lose:
\* no credit, the game is over and the net effect is -bet; a timeout that
\* fires after the game is over changes nothing; and the timeout of one game
\* changes no other game.  Checked under SpecTimeout.
C29_Timeout ==
    [][/\ \A id \in DOMAIN games :
            TimeoutStep(id) =>
                /\ user_stats' = user_stats
                /\ tasks' = tasks
                /\ \A other \in DOMAIN games \ {id} : games'[other] = games[other]
                /\ IF games[id].game_over
                   THEN games'[id] = [games[id] EXCEPT !.view = "stopped"]
                   ELSE games'[id] =
                           [games[id] EXCEPT !.view = "stopped",
                                             !.game_over = TRUE,
                                             !.results = Append(@, "lose"),
                                             !.pending = Append(@, 0)]
       /\ \A id \in DOMAIN games :
            Forfeited(games[id]) =>
                /\ games[id].credited = 0
                /\ get_balance(user_stats, db_pool, games[id].player)
                      = Balance0(games[id].player) - games[id].bet_amount]_vars

\* C29 witness: u1's game of 2 timed out in the player's turn and is settled
\* as lose with nothing credited, while u2's game is still in the player's
\* turn.
C29_Witness ==
    \E id, other \in DOMAIN games :
        /\ Forfeited(games[id])
        /\ games[id].player = "u1"
        /\ games[id].bet_amount = 2
        /\ get_balance(user_stats, db_pool, "u1") = InitBalance - 2
        /\ games[other].player = "u2"
        /\ games[other].view = "active"
        /\ ~games[other].game_over

-----------------------------------------------------------------------------
(* Claim about the race scheduler, checked under SpecSched *)

\* The races of the guild that are in progress.
InProgress(s, g) ==
    {k \in DOMAIN s.coros : k[2] = g /\ s.coros[k] = "running"}

\* C30: a run of run_global_races starts exactly one race per guild that has
\* a configuration at that moment and none for the others; at most one race
\* per guild is in progress at any time; and completion is reported only
\* when no started race is still in progress.
C30_Scheduler ==
    [][/\ scheduler'.runs # scheduler.runs =>
             /\ Minute(now) \in {0, 30}
             /\ DOMAIN scheduler'.coros \ DOMAIN scheduler.coros
                   = {<<scheduler'.runs, g>> : g \in DOMAIN guild_configs}
       /\ \A g \in Guilds : Cardinality(InProgress(scheduler', g)) <= 1
       /\ scheduler'.logged # scheduler.logged =>
             \A g \in Guilds : InProgress(scheduler', g) = {}]_vars

\* The step in which the race k, refused in its channel, has deleted the
\* configuration and returns.
Revokes(k) ==
    /\ k \in DOMAIN scheduler.coros
    /\ scheduler.coros[k] = "removing"
    /\ scheduler'.coros[k] = "revoked"

-----------------------------------------------------------------------------
(* Claim about the startup of the store, checked under SpecStartup *)

\* What a read returns when the persistence layer is disabled.
StoreDefault(fn) ==
    IF fn \in {"get_balance", "get_total_time"} THEN 0 ELSE {}

\* C32: once init_database_pool has returned without completing (the
\* connection string is absent or one of its steps raised), every store
\* function a handler calls returns at its guard: a read gives its zero or
\* empty default, a write changes no table, and no call raises.
C32_DegradedMode ==
    [][(boot.pc = "failed" /\ boot'.ncalls # boot.ncalls) =>
          /\ boot'.last.outcome = "default"
          /\ boot'.last.fn \in StoreReads =>
                boot'.last.value = StoreDefault(boot'.last.fn)
          /\ user_stats' = user_stats
          /\ horse_bets' = horse_bets
          /\ guild_configs' = guild_configs]_vars

-----------------------------------------------------------------------------
(* Claim about the startup scan, checked under Spec *)

\* The step in which on_ready completes its scan.
ScanCompletes == ~ready /\ ready'

\* C33: when on_ready completes, every user who is not a bot and is in a
\* voice channel has an entry whose join_time is the instant of the scan,
\* whatever entry an event handled before the scan had left, and no bot has
\* an entry; the scan commits nothing, so time in voice before it stays
\* unsettled; and no step adds more seconds to a user's total than have
\* passed since the join_time of the user's entry.
C33_StartupRehydration ==
    [][/\ ScanCompletes =>
             /\ \A u \in Users :
                   voice[u] # None =>
                      /\ u \in DOMAIN active_sessions'
                      /\ active_sessions'[u] = now
             /\ \A b \in Bots : b \notin DOMAIN active_sessions'
             /\ user_stats' = user_stats
       /\ \A b \in Bots : b \notin DOMAIN active_sessions'
       /\ \A u \in Users :
             get_total_time(user_stats', db_pool, u)
                   - get_total_time(user_stats, db_pool, u)
                <= IF u \in DOMAIN active_sessions
                   THEN now - active_sessions[u] ELSE 0]_vars

\* C33 witness: the scan ran at an instant after 0; u1, in voice, has an
\* entry of that instant, u2, not in voice, has none, and the bot, in
\* voice, has none; the table is as it was at startup.
C33_Witness ==
    /\ ready
    /\ now > 0
    /\ voice["u1"] # None
    /\ "u1" \in DOMAIN active_sessions
    /\ active_sessions["u1"] = now
    /\ voice["u2"] = None
    /\ "u2" \notin DOMAIN active_sessions
    /\ \E b \in Bots : voice[b] # None /\ b \notin DOMAIN active_sessions
    /\ user_stats = stats0

====
